---- MODULE Spec2Model ----
(***************************************************************************)
(* Model of the planner submission controller (planner.js: jsonFetch,      *)
(* validateFields, PlannerApp) and of the experience layer's event wiring  *)
(* (experience.js: ExperienceApp.wirePlannerEvents / handlePlannerEvent    *)
(* and the subscriber sync methods).                                       *)
(*                                                                         *)
(* Strings whose content the code inspects (the three form fields) are     *)
(* sequences of one-character strings; opaque texts (messages, URLs,       *)
(* response bodies) are TLA+ strings.                                      *)
(***************************************************************************)
EXTENDS Integers, Sequences, FiniteSets, TLC

(***************************************************************************)
(* Bounds of the model                                                     *)
(***************************************************************************)
\* handleSubmit invocations whose continuation may be suspended at once
MaxSlots == 2
\* blur validations recorded between two accepted submits
MaxBlurs == 1
\* timeoutMs, in ticks of the clock, and the last tick of the clock
TimeoutTicks == 2
MaxClock == 5
\* planner events handed to the experience layer, entries a user adds to a list
MaxEvents == 3
MaxItems == 1
\* submit events of the quiz form, clicks on the self-evolution checkbox
MaxQuizSubmits == 3
MaxToggleChanges == 3

(***************************************************************************)
(* DEFAULTS (planner.js)                                                   *)
(***************************************************************************)
MIN_AGE_MONTHS == 1
MAX_AGE_MONTHS == 600
MIN_CONCERN_LEN == 3
MAX_CONCERN_LEN == 500

PLAN_ENDPOINT == "/api/planner/plan"

STATUS_IDLE == ""
STATUS_LOADING == "Generating your plan"
STATUS_SUCCESS == "All done! Enjoy your personalized plan."
STATUS_VALIDATION_ERROR == "Please fix the highlighted fields and try again."
STATUS_GENERIC_ERROR == "Something went wrong. Please try again later."
STATUS_NETWORK_ERROR == "Network error - please check your connection and try again."
STATUS_TIMEOUT_ERROR == "Request took too long - please try again in a moment."
STATUS_PARTIAL_BUNDLES_ERROR == "Plan generated, but bundle recommendations are unavailable right now."

(***************************************************************************)
(* String helpers                                                          *)
(***************************************************************************)
Digits == {"0", "1", "2", "3", "4", "5", "6", "7", "8", "9"}

DigitVal(c) ==
  CASE c = "0" -> 0 [] c = "1" -> 1 [] c = "2" -> 2 [] c = "3" -> 3
    [] c = "4" -> 4 [] c = "5" -> 5 [] c = "6" -> 6 [] c = "7" -> 7
    [] c = "8" -> 8 [] c = "9" -> 9

IsSpace(c) == c = " "

\* String.prototype.trim: the text between the first and the last non-space
Trim(s) ==
  LET keep == {i \in 1..Len(s) : ~IsSpace(s[i])}
  IN  IF keep = {} THEN <<>>
      ELSE LET lo == CHOOSE i \in keep : \A j \in keep : i <= j
               hi == CHOOSE i \in keep : \A j \in keep : j <= i
           IN  SubSeq(s, lo, hi)

\* getTrimmedValue(input): (input?.value ?? '').trim()
getTrimmedValue(v) == Trim(v)

RECURSIVE Pow10(_)
Pow10(n) == IF n = 0 THEN 1 ELSE 10 * Pow10(n - 1)

RECURSIVE DigitsVal(_)
DigitsVal(s) ==
  IF s = <<>> THEN 0 ELSE 10 * DigitsVal(SubSeq(s, 1, Len(s) - 1)) + DigitVal(s[Len(s)])

AllDigits(s) == \A i \in 1..Len(s) : s[i] \in Digits

NaN == [kind |-> "nan", num |-> 0, den |-> 1]
Infinite(sign) == [kind |-> "inf", num |-> sign, den |-> 1]
Finite(n, d) == [kind |-> "fin", num |-> n, den |-> d]

\* An unsigned decimal literal: digits, optionally one "." with digits on at
\* least one side.
UnsignedDecimal(s) ==
  LET dots == {i \in 1..Len(s) : s[i] = "."}
  IN  IF dots = {}
      THEN IF s /= <<>> /\ AllDigits(s) THEN Finite(DigitsVal(s), 1) ELSE NaN
      ELSE IF Cardinality(dots) > 1 THEN NaN
      ELSE LET d == CHOOSE i \in dots : TRUE
               ip == SubSeq(s, 1, d - 1)
               fp == SubSeq(s, d + 1, Len(s))
           IN  IF AllDigits(ip) /\ AllDigits(fp) /\ Len(ip) + Len(fp) > 0
               THEN Finite(DigitsVal(ip) * Pow10(Len(fp)) + DigitsVal(fp), Pow10(Len(fp)))
               ELSE NaN

Negate(x) == [x EXCEPT !.num = 0 - x.num]

\* Number(string) for strings over digits, ".", sign, letters and spaces
\* (no exponent, hex, octal or binary literal): the empty string is 0,
\* "Infinity" is infinite, a decimal literal is its value, the rest is NaN.
NumberOf(raw) ==
  LET s == Trim(raw)
      body == IF s /= <<>> /\ Head(s) \in {"+", "-"} THEN Tail(s) ELSE s
      neg == s /= <<>> /\ Head(s) = "-"
      val == IF body = <<"I", "n", "f", "i", "n", "i", "t", "y">>
             THEN Infinite(1)
             ELSE UnsignedDecimal(body)
  IN  IF s = <<>> THEN Finite(0, 1)
      ELSE IF neg THEN Negate(val) ELSE val

\* Number.isFinite
IsFinite(x) == x.kind = "fin"

\* x < n, x > n, x <= n for a number x and an integer n (false for NaN)
NumLt(x, n) == \/ x.kind = "fin" /\ x.num < n * x.den
               \/ x.kind = "inf" /\ x.num < 0
NumGt(x, n) == \/ x.kind = "fin" /\ x.num > n * x.den
               \/ x.kind = "inf" /\ x.num > 0
NumLe(x, n) == \/ x.kind = "fin" /\ x.num <= n * x.den
               \/ x.kind = "inf" /\ x.num < 0

NoSpaceAt(s, lo, hi) == \A i \in lo..hi : ~IsSpace(s[i]) /\ s[i] /= "@"

\* /^[^\s@]+@[^\s@]+\.[^\s@]+$/.test(s)
basicEmailRegex(s) ==
  \E i \in 1..Len(s) : \E j \in 1..Len(s) :
    /\ s[i] = "@" /\ s[j] = "."
    /\ 1 < i /\ i + 1 < j /\ j < Len(s)
    /\ NoSpaceAt(s, 1, i - 1)
    /\ NoSpaceAt(s, i + 1, j - 1)
    /\ NoSpaceAt(s, j + 1, Len(s))

(***************************************************************************)
(* validateFields                                                          *)
(***************************************************************************)
NoError == "none"

AgeError(ageRaw) ==
  LET ageValue == Trim(ageRaw)
      ageNumber == NumberOf(ageValue)
  IN  IF ageValue = <<>> THEN "Age is required."
      ELSE IF ~IsFinite(ageNumber) \/ NumLe(ageNumber, 0)
           THEN "Age must be a positive number."
      ELSE IF NumLt(ageNumber, MIN_AGE_MONTHS) \/ NumGt(ageNumber, MAX_AGE_MONTHS)
           THEN "Age must be between 1 and 600 months."
      ELSE NoError

\* a concern check whose length bounds are exclusive
ConcernErrorExclusive(concernRaw) ==
  LET concern == Trim(concernRaw)
  IN  IF concern = <<>> THEN "Please describe your main concern."
      ELSE IF Len(concern) <= MIN_CONCERN_LEN
           THEN "Concern must be at least 3 characters."
      ELSE IF Len(concern) >= MAX_CONCERN_LEN
           THEN "Concern must be at most 500 characters."
      ELSE NoError

ConcernError(concernRaw) ==
  LET concern == Trim(concernRaw)
  IN  IF concern = <<>> THEN "Please describe your main concern."
      ELSE IF Len(concern) < MIN_CONCERN_LEN
           THEN "Concern must be at least 3 characters."
      ELSE IF Len(concern) > MAX_CONCERN_LEN
           THEN "Concern must be at most 500 characters."
      ELSE NoError

EmailError(emailRaw) ==
  LET email == Trim(emailRaw)
  IN  IF email /= <<>> /\ ~basicEmailRegex(email)
      THEN "Please enter a valid email address."
      ELSE NoError

FieldNames == {"age", "concern", "email"}

\* a validator that reports the first invalid field only
validateFieldsFirstOnly(ageRaw, concernRaw, emailRaw) ==
  LET msg == [f \in FieldNames |->
                CASE f = "age" -> AgeError(ageRaw)
                  [] f = "concern" -> IF AgeError(ageRaw) = NoError
                                      THEN ConcernError(concernRaw) ELSE NoError
                  [] f = "email" -> IF AgeError(ageRaw) = NoError
                                       /\ ConcernError(concernRaw) = NoError
                                    THEN EmailError(emailRaw) ELSE NoError]
      bad == {f \in FieldNames : msg[f] /= NoError}
      fieldErrors == [f \in bad |-> msg[f]]
      ok == Cardinality(DOMAIN fieldErrors) = 0
  IN  [ok |-> ok,
       formError |-> IF ok THEN "null" ELSE STATUS_VALIDATION_ERROR,
       fieldErrors |-> fieldErrors]

validateFields(ageRaw, concernRaw, emailRaw) ==
  LET msg == [f \in FieldNames |->
                CASE f = "age" -> AgeError(ageRaw)
                  [] f = "concern" -> ConcernError(concernRaw)
                  [] f = "email" -> EmailError(emailRaw)]
      bad == {f \in FieldNames : msg[f] /= NoError}
      fieldErrors == [f \in bad |-> msg[f]]
      ok == Cardinality(DOMAIN fieldErrors) = 0
  IN  [ok |-> ok,
       formError |-> IF ok THEN "null" ELSE STATUS_VALIDATION_ERROR,
       fieldErrors |-> fieldErrors]

(***************************************************************************)
(* Values: null, JSON objects and arrays, response bodies                  *)
(***************************************************************************)
Null == [t |-> "null"]
Undefined == [t |-> "undefined"]
\* a string value whose content the code inspects, a number
Str(text) == [t |-> "str", s |-> text]
Num(n) == [t |-> "num", n |-> n]

\* the response bodies the two endpoints are given in the model
BODY_EMPTY == ""
BODY_PLAN == "{\"steps\":[\"S1\",\"S2 \"]}"
BODY_NOSTEPS == "{}"
BODY_BUNDLES == "[{\"id\":1,\"name\":\"Kit A\",\"price\":\"$10\"}]"
BODY_NOBUNDLES == "[]"
BODY_MESSAGE == "{\"message\":\"boom\"}"
BODY_GARBAGE == "<html>"
\* a plan whose step is not a string
BODY_NUMSTEP == "{\"steps\":[42]}"

JsonTexts == {BODY_PLAN, BODY_NOSTEPS, BODY_BUNDLES, BODY_NOBUNDLES, BODY_MESSAGE,
              BODY_NUMSTEP}

\* JSON.parse on the texts of JsonTexts (any other text is a SyntaxError)
JSONParse(text) ==
  CASE text = BODY_PLAN ->
         [t |-> "obj", steps |-> <<Str(<<"S", "1">>), Str(<<"S", "2", " ">>)>>]
    [] text = BODY_NUMSTEP -> [t |-> "obj", steps |-> <<Num(42)>>]
    [] text = BODY_NOSTEPS -> [t |-> "obj"]
    [] text = BODY_BUNDLES ->
         [t |-> "arr", items |-> << [id |-> 1, name |-> "Kit A", price |-> "$10"] >>]
    [] text = BODY_NOBUNDLES -> [t |-> "arr", items |-> <<>>]
    [] text = BODY_MESSAGE -> [t |-> "obj", message |-> "boom"]

\* what fetch() can settle with: a response, or a rejection
Response(status, body) == [type |-> "response", status |-> status, body |-> body]
Rejection(err) == [type |-> "reject", err |-> err]

\* the TypeError fetch rejects with when the network is unreachable
NetworkFailure == [cls |-> "TypeError", name |-> "TypeError", message |-> "Failed to fetch"]
\* the DOMException fetch rejects with when its signal is aborted
AbortError == [cls |-> "DOMException", name |-> "AbortError", message |-> "The operation was aborted."]

Returned(v) == [ok |-> TRUE, value |-> v]
Thrown(e) == [ok |-> FALSE, err |-> e]

(***************************************************************************)
(* jsonFetch: from what fetch() settled with to what the call returns or   *)
(* throws                                                                  *)
(***************************************************************************)
ResOk(status) == status >= 200 /\ status <= 299

\* a jsonFetch that hands an empty body to JSON.parse
jsonFetchBodyParsesEmpty(res) ==
  IF ~ResOk(res.status)
  THEN Thrown([cls |-> "Error", name |-> "Error",
               message |-> "HTTP " \o ToString(res.status),
               status |-> res.status])
  ELSE IF res.body \in JsonTexts THEN Returned(JSONParse(res.body))
  ELSE Thrown([cls |-> "Error", name |-> "Error", message |-> "Invalid JSON response"])

jsonFetchBody(res) ==
  IF ~ResOk(res.status)
  THEN LET detail == IF res.body \in JsonTexts /\ "message" \in DOMAIN JSONParse(res.body)
                     THEN ": " \o JSONParse(res.body).message
                     ELSE ""
       IN  Thrown([cls |-> "Error", name |-> "Error",
                   message |-> "HTTP " \o ToString(res.status) \o detail,
                   status |-> res.status])
  ELSE IF res.body = "" THEN Returned(Null)
  ELSE IF res.body \in JsonTexts THEN Returned(JSONParse(res.body))
  ELSE Thrown([cls |-> "Error", name |-> "Error", message |-> "Invalid JSON response"])

\* a catch block of jsonFetch that rethrows whatever it caught
jsonFetchCatchRethrows(err) == Thrown(err)

jsonFetchCatch(err) ==
  IF err.name = "AbortError"
  THEN Thrown([cls |-> "Error", name |-> "Error", message |-> "timeout", code |-> "TIMEOUT"])
  ELSE Thrown(err)

\* the signal is aborted while the body is read: res.json() rejects and the
\* rejection is ignored (detail stays ''), res.text() rejects with the AbortError
jsonFetchBodyAborted(res) ==
  IF ~ResOk(res.status)
  THEN Thrown([cls |-> "Error", name |-> "Error",
               message |-> "HTTP " \o ToString(res.status),
               status |-> res.status])
  ELSE jsonFetchCatch(AbortError)

jsonFetch(settled) ==
  LET r == IF settled.type = "response" THEN jsonFetchBody(settled) ELSE Thrown(settled.err)
  IN  IF r.ok THEN r ELSE jsonFetchCatch(r.err)

(***************************************************************************)
(* PlannerApp helpers                                                      *)
(***************************************************************************)
\* a resolveError without its instanceof TypeError branch
resolveErrorNoNetwork(err) ==
  IF err = Null \/ err = Undefined
  THEN [kind |-> "UNKNOWN", message |-> STATUS_GENERIC_ERROR]
  ELSE IF ("code" \in DOMAIN err /\ err.code = "TIMEOUT") \/ err.message = "timeout"
  THEN [kind |-> "TIMEOUT", message |-> STATUS_TIMEOUT_ERROR, raw |-> err]
  ELSE IF "status" \in DOMAIN err
  THEN [kind |-> "SERVER", message |-> STATUS_GENERIC_ERROR, raw |-> err]
  ELSE [kind |-> "UNKNOWN", message |-> STATUS_GENERIC_ERROR, raw |-> err]

resolveError(err) ==
  IF err = Null \/ err = Undefined
  THEN [kind |-> "UNKNOWN", message |-> STATUS_GENERIC_ERROR]
  ELSE IF ("code" \in DOMAIN err /\ err.code = "TIMEOUT") \/ err.message = "timeout"
  THEN [kind |-> "TIMEOUT", message |-> STATUS_TIMEOUT_ERROR, raw |-> err]
  ELSE IF err.cls = "TypeError"
  THEN [kind |-> "NETWORK", message |-> STATUS_NETWORK_ERROR, raw |-> err]
  ELSE IF "status" \in DOMAIN err
  THEN [kind |-> "SERVER", message |-> STATUS_GENERIC_ERROR, raw |-> err]
  ELSE [kind |-> "UNKNOWN", message |-> STATUS_GENERIC_ERROR, raw |-> err]

\* getPayload
getPayload(f) ==
  LET ageMonths == NumberOf(IF getTrimmedValue(f.age) = <<>> THEN <<"0">>
                            ELSE getTrimmedValue(f.age))
      concern == getTrimmedValue(f.concern)
      email == getTrimmedValue(f.email)
  IN  IF email /= <<>>
      THEN [age_months |-> ageMonths, concern |-> concern, email |-> email]
      ELSE [age_months |-> ageMonths, concern |-> concern]

\* DEFAULTS.API.BUNDLES(concern): the URL is the prefix and the encoded concern
bundlesEndpoint(concern) == [path |-> "/api/bundles?age=", arg |-> concern]

\* the content renderPlan puts in planSection: heading, list of steps, disclaimer
renderPlan(planData) ==
  [heading |-> "Your Personalized Plan",
   steps |-> IF planData.t = "obj" /\ "steps" \in DOMAIN planData
             THEN planData.steps ELSE <<>>]

\* the content renderBundles puts in bundlesSection: the empty-state message
\* or the heading and one card per bundle
renderBundles(bundles) ==
  LET arr == IF bundles.t = "arr" THEN bundles.items ELSE <<>>
  IN  IF Len(arr) = 0
      THEN [heading |-> "none", cards |-> <<>>, text |-> "No bundles found for this concern."]
      ELSE [heading |-> "Recommended Deals",
            cards |-> [i \in 1..Len(arr) |-> arr[i].name],
            text |-> ""]

\* section content before anything was rendered into it
Blank == [heading |-> "none"]

(***************************************************************************)
(* Experience layer (experience.js)                                        *)
(***************************************************************************)
\* MilestoneTracker.syncFromPlan throws: the list is empty, the plan has steps
\* and label.trim is not a function for one of them
SyncFromPlanThrows(m, plan) ==
  /\ plan.t = "obj" /\ "steps" \in DOMAIN plan
  /\ Len(plan.steps) > 0
  /\ Len(m.milestones) = 0
  /\ \E i \in 1..Len(plan.steps) : plan.steps[i].t /= "str"

\* a syncFromPlan that replaces whatever the list holds
MilestoneSyncOverwrites(m, plan) ==
  IF plan.t /= "obj" \/ ~("steps" \in DOMAIN plan) THEN m
  ELSE IF Len(plan.steps) = 0 THEN m
  ELSE LET seeded == [i \in 1..Len(plan.steps) |->
                        [id |-> "plan-" \o ToString(i),
                         label |-> Trim(plan.steps[i].s),
                         done |-> FALSE]]
       IN  [milestones |-> seeded, stored |-> seeded]

\* MilestoneTracker.syncFromPlan
MilestoneSyncFromPlan(m, plan) ==
  IF plan.t /= "obj" \/ ~("steps" \in DOMAIN plan) THEN m
  ELSE IF Len(plan.steps) = 0 THEN m
  ELSE IF Len(m.milestones) > 0 THEN m
  ELSE IF SyncFromPlanThrows(m, plan) THEN m
  ELSE LET seeded == [i \in 1..Len(plan.steps) |->
                        [id |-> "plan-" \o ToString(i),
                         label |-> Trim(plan.steps[i].s),
                         done |-> FALSE]]
       IN  [milestones |-> seeded, stored |-> seeded]

\* RegistryBuilder.syncFromBundles
RegistrySyncFromBundles(r, bundles) ==
  IF bundles.t /= "arr" THEN r
  ELSE IF Len(bundles.items) = 0 THEN r
  ELSE IF Len(r.items) > 0 THEN r
  ELSE LET pushed == [i \in 1..Len(bundles.items) |->
                        LET b == bundles.items[i]
                        IN  [id |-> "bundle-" \o ToString(b.id),
                             name |-> b.name,
                             note |-> IF "description" \in DOMAIN b THEN b.description
                                      ELSE IF "price" \in DOMAIN b THEN b.price ELSE "",
                             sourceBundleId |-> b.id]]
       IN  [items |-> pushed, stored |-> pushed]

\* the experience layer after ExperienceApp's constructor and initFeatures
ExperienceNew ==
  [latestPlan |-> Null, latestBundles |-> Null,
   quizPlan |-> Null, quizBundles |-> Null,
   chatPlan |-> Null, chatBundles |-> Null,
   alertBundles |-> Null, reviewBundles |-> Null,
   milestones |-> [milestones |-> <<>>, stored |-> <<>>],
   registry |-> [items |-> <<>>, stored |-> <<>>]]

\* detail?.plan ?? null, detail?.bundles ?? null
DetailField(detail, f) == IF f \in DOMAIN detail THEN detail[f] ELSE Null

\* handlePlannerEvent throws what a subscriber it calls throws
handlePlannerEventThrows(e, stage, detail) ==
  stage = "plan_success" /\ SyncFromPlanThrows(e.milestones, DetailField(detail, "plan"))

\* ExperienceApp.handlePlannerEvent: the switch on the stage, up to its end or
\* to the call that throws
handlePlannerEvent(e, stage, detail) ==
  IF stage = "plan_success"
  THEN LET plan == DetailField(detail, "plan")
       IN  IF SyncFromPlanThrows(e.milestones, plan)
           THEN [e EXCEPT !.latestPlan = plan, !.quizPlan = plan]
           ELSE [e EXCEPT !.latestPlan = plan,
                          !.quizPlan = plan,
                          !.milestones = MilestoneSyncFromPlan(e.milestones, plan),
                          !.chatPlan = plan]
  ELSE IF stage = "bundles_success"
  THEN LET bundles == DetailField(detail, "bundles")
       IN  [e EXCEPT !.latestBundles = bundles,
                     !.registry = RegistrySyncFromBundles(e.registry, bundles),
                     !.alertBundles = bundles,
                     !.reviewBundles = bundles,
                     !.chatBundles = bundles]
  ELSE e

\* ExperienceApp.handlePlannerEvent: the planner_event it forwards to the
\* experience layer's own sink
ForwardPlannerEvent(log, stage, detail) ==
  Append(log, [stage |-> "planner_event", detail |-> [stage |-> stage, detail |-> detail]])

\* the sink given to PlannerApp at construction: it is handed (stage, detail)
originalOnEvent(log, stage, detail) == Append(log, [stage |-> stage, detail |-> detail])

\* a wrapper that fans out without calling the original sink
PatchedOnEventDropsOriginal(log, stage, detail) == log

\* the function wirePlannerEvents installs as plannerApp.onEvent: what it
\* passes on to the original sink
PatchedOnEvent(log, stage, detail) == originalOnEvent(log, stage, detail)

Call(callee, stage, detail) == [callee |-> callee, stage |-> stage, detail |-> detail]

\* the onEvent given at construction calls the original sink
OriginalCalls(stage, detail) == <<Call("original", stage, detail)>>

\* a wrapper that fans out before it calls the original sink
PatchedCallsFanOutFirst(stage, detail) ==
  <<Call("handlePlannerEvent", stage, detail), Call("original", stage, detail)>>

\* the calls the patched onEvent makes, in order
PatchedCalls(stage, detail) ==
  <<Call("original", stage, detail), Call("handlePlannerEvent", stage, detail)>>

\* the call of wirePlannerEvents in the order of calls
WiringCall == Call("wirePlannerEvents", "", [t |-> "undefined"])

\* a wirePlannerEvents that hands the events emitted so far to the new sink
WireReplaysPast(past) ==
  <<WiringCall>> \o [i \in 1..Len(past) |->
                       Call("handlePlannerEvent", past[i].stage, past[i].detail)]

\* wirePlannerEvents replaces plannerApp.onEvent and calls nothing
Wire(past) == <<WiringCall>>

(***************************************************************************)
(* Inputs of the model                                                     *)
(***************************************************************************)
Colic == <<"c", "o", "l", "i", "c", " ">>

FormEmpty == [age |-> <<>>, concern |-> <<>>, email |-> <<>>]
FormValid == [age |-> <<" ", "1", "2">>, concern |-> Colic, email |-> <<>>]
FormNoAge == [age |-> <<>>, concern |-> Colic, email |-> <<>>]
FormShortConcern == [age |-> <<"1", "2">>, concern |-> <<"o", "k">>, email |-> <<>>]
FormWithEmail == [age |-> <<"6", "0", "0">>, concern |-> <<"r", "a", "s", "h">>,
                  email |-> <<"a", "@", "b", ".", "c">>]
FormBadEmail == [age |-> <<"1", "2">>, concern |-> Colic, email |-> <<"b", "a", "d">>]

\* what the user may type into the form
Forms == {FormValid, FormNoAge, FormShortConcern, FormWithEmail, FormBadEmail}

Inputs == {"age", "concern", "email"}

\* the values the form can hold: as constructed, or as typed
AllForms == Forms \cup {FormEmpty}

\* validateFields(getTrimmedValue(age), getTrimmedValue(concern),
\* getTrimmedValue(email)) for each value of the form
ValidationOf ==
  [f \in AllForms |->
     validateFields(getTrimmedValue(f.age), getTrimmedValue(f.concern),
                    getTrimmedValue(f.email))]

\* getPayload() for each value of the form
PayloadOf == [f \in AllForms |-> getPayload(f)]

\* what fetch() may settle with for the plan endpoint and the bundles endpoint
PlanOutcomes ==
  {Response(200, BODY_PLAN), Response(200, BODY_EMPTY), Response(200, BODY_GARBAGE),
   Response(500, BODY_MESSAGE), Rejection(NetworkFailure)}

BundlesOutcomes ==
  {Response(200, BODY_BUNDLES), Response(200, BODY_EMPTY),
   Response(500, BODY_EMPTY), Rejection(NetworkFailure)}

(***************************************************************************)
(* State                                                                   *)
(***************************************************************************)
VARIABLES
  boot,            \* "constructed", "inited" (PlannerApp.init ran), "ready"
  wired,           \* plannerApp.onEvent has been replaced by wirePlannerEvents
  state,           \* PlannerApp.state
  form,            \* the values of #age, #concern, #email
  ui,              \* status text, spinner, submit button, field errors, focus
  planSection,     \* content of planSection
  bundlesSection,  \* content of bundlesSection
  slots,           \* the handleSubmit invocations: position, locals, request
  running,         \* the invocation that is executing, 0 when none is
  sink,            \* (stage, detail) pairs the original sink was called with
  emitted,         \* the calls of this.onEvent, with the invocation making them
  calls,           \* what the installed onEvent called, and the wiring, in order
  net,             \* the requests handed to fetch()
  blurs,           \* blur events since the last accepted submit
  exp,             \* ExperienceApp and its widgets' cached plan and bundles
  expSink,         \* events the experience layer's own sink was called with
  last,            \* the kind of the last step
  fields,          \* validateFields called on its own: the three raw values
  validated,       \* validateFields called on its own: what it returned
  env,             \* process.env.BASIC_AUTH_USERNAME and BASIC_AUTH_PASSWORD
  request,         \* the static handler's req: Authorization header and url
  response,        \* the static handler's res: status, body, file read
  clock,           \* time, in ticks, for the timers of jsonFetch
  timers,          \* the timeouts set by jsonFetch and not yet fired or cleared
  fetches,         \* the jsonFetch calls of one attempt, timed
  quiz,            \* GrokQuiz: loading, results, requests in flight, events
  toggle           \* SelfEvolutionToggle: checkbox, requests in flight, accepted

plannerVars == <<boot, wired, state, form, ui, planSection, bundlesSection, slots,
                 running, sink, emitted, calls, net, blurs, exp, expSink, last>>

validatorVars == <<fields, validated>>
handlerVars == <<env, request, response>>
timerVars == <<clock, timers, fetches>>
asyncVars == <<quiz, toggle>>

\* the state of the parts that are modelled on their own, apart from the page
others == <<validatorVars, handlerVars, timerVars, asyncVars>>

vars == <<plannerVars, others>>

\* sink, emitted, calls, net and expSink hold the history since the start of the
\* most recent accepted submit (since construction before the first one).

SlotIds == 1..MaxSlots

\* formAt: the form as it was when the invocation began;
\* cause: how the invocation's most recent jsonFetch call ended
FreeSlot == [pc |-> "free", formAt |-> Undefined, payload |-> Undefined,
             planData |-> Undefined, bundlesData |-> Undefined, err |-> Undefined,
             req |-> Undefined, cause |-> Undefined]

\* validateFields not called, no request handled, no jsonFetch call timed
ValidatorIdle == fields = Undefined /\ validated = Undefined
HandlerIdle == env = Undefined /\ request = Undefined /\ response = Undefined
TimersIdle == clock = 0 /\ timers = {} /\ fetches = <<>>
AsyncIdle == quiz = Undefined /\ toggle = Undefined

PlannerNew ==
  /\ boot = "constructed"
  /\ wired = FALSE
  /\ state = "idle"
  /\ form = FormEmpty
  /\ ui \in {[statusMsg |-> "", statusError |-> FALSE, spinnerHidden |-> h,
              disabled |-> FALSE, shown |-> [f \in {} |-> ""], focus |-> "other"]
               : h \in BOOLEAN}
  /\ planSection = Blank
  /\ bundlesSection = Blank
  /\ slots = [i \in SlotIds |-> FreeSlot]
  /\ running = 0
  /\ sink = <<>>
  /\ emitted = <<>>
  /\ calls = <<>>
  /\ net = <<>>
  /\ blurs = 0
  /\ exp = ExperienceNew
  /\ expSink = <<>>
  /\ last = "new"

Init == PlannerNew /\ ValidatorIdle /\ HandlerIdle /\ TimersIdle /\ AsyncIdle

(***************************************************************************)
(* Event delivery: this.onEvent(stage, detail)                             *)
(***************************************************************************)
\* by: the invocation that emits (0: init or a blur handler);
\* fresh: the step starts a new history window.  The call returns.
Deliver(stage, detail, by, fresh) ==
  LET s0 == IF fresh THEN <<>> ELSE sink
      m0 == IF fresh THEN <<>> ELSE emitted
      c0 == IF fresh THEN <<>> ELSE calls
      x0 == IF fresh THEN <<>> ELSE expSink
  IN  /\ ~(wired /\ handlePlannerEventThrows(exp, stage, detail))
      /\ emitted' = Append(m0, [stage |-> stage, detail |-> detail, by |-> by])
      /\ calls' = c0 \o (IF wired THEN PatchedCalls(stage, detail)
                         ELSE OriginalCalls(stage, detail))
      /\ sink' = IF wired THEN PatchedOnEvent(s0, stage, detail)
                 ELSE originalOnEvent(s0, stage, detail)
      /\ exp' = IF wired THEN handlePlannerEvent(exp, stage, detail) ELSE exp
      /\ expSink' = IF wired THEN ForwardPlannerEvent(x0, stage, detail) ELSE x0

NoDelivery == UNCHANGED <<sink, emitted, calls, exp, expSink>>

\* what a sink that fails throws, what label.trim() throws on a number
SinkError == [cls |-> "Error", name |-> "Error", message |-> "sink failed"]
TrimTypeError == [cls |-> "TypeError", name |-> "TypeError",
                  message |-> "label.trim is not a function"]

\* this.onEvent(stage, detail) throws: the original sink throws (the wrapper
\* then calls nothing more), or the original sink returns and
\* handlePlannerEvent throws before it forwards the event
DeliverThrows(stage, detail, by, who) ==
  /\ emitted' = Append(emitted, [stage |-> stage, detail |-> detail, by |-> by])
  /\ sink' = IF wired THEN PatchedOnEvent(sink, stage, detail)
             ELSE originalOnEvent(sink, stage, detail)
  /\ IF who = "subscriber"
     THEN /\ wired
          /\ handlePlannerEventThrows(exp, stage, detail)
          /\ calls' = calls \o PatchedCalls(stage, detail)
          /\ exp' = handlePlannerEvent(exp, stage, detail)
     ELSE /\ calls' = calls \o OriginalCalls(stage, detail)
          /\ exp' = exp
  /\ expSink' = expSink

\* a setState that announces the state it replaced
StateChangeDetailPrevious(newState) == [state |-> state]

\* setState(newState): the detail of its state_change event
StateChangeDetail(newState) == [state |-> newState]

\* setStatus(msg, isError)
setStatus(u, msg, isError) == [u EXCEPT !.statusMsg = msg, !.statusError = isError]

\* the check at the top of blurHandler
BlurReturnsEarly(st) == st = "submitting"

\* handleSubmit without its double-submit check
AvoidDoubleSubmitMissing(st) == FALSE

\* a handleSubmit that returns unless the controller is idle
AvoidDoubleSubmitUnlessIdle(st) == st /= "idle"

\* the check at the top of handleSubmit
AvoidDoubleSubmit(st) == st = "submitting"

\* handleSubmit without the early return on a failed validation
AfterValidateIgnoresResult(isValid) == "payload"

\* const isValid = validateAndShowErrors(true); if (!isValid) { ...; return; }
AfterValidate(isValid) == IF isValid THEN "payload" ELSE "invalid"

\* an early return that leaves the controller in 'submitting'
InvalidStateSubmitting == "submitting"

\* the state the early return of handleSubmit sets
InvalidState == "error"

\* a bundles catch that reports the attempt as a success
BundlesErrorStateSuccess == "success"

\* the state the catch of the bundles call sets
BundlesErrorState == "error"

\* a failed plan call that is swallowed, the bundles call following anyway
AfterPlanFetchSwallowsError(ok) == IF ok THEN "renderPlan" ELSE "callBundles"

\* a plan call whose result is neither rendered nor announced
AfterPlanFetchSkipsEmit(ok) == IF ok THEN "callBundles" ELSE "planFailed"

\* a try without its catch block: a failed plan call goes to the cleanup
AfterPlanFetchSkipsCatch(ok) == IF ok THEN "renderPlan" ELSE "finally"

\* try { plan call; ... } catch (err) { ... }
AfterPlanFetch(ok) == IF ok THEN "renderPlan" ELSE "planFailed"

\* a bundles call without its own try/catch: its failure reaches the outer catch
AfterBundlesFetchUncaught(ok) == IF ok THEN "renderBundles" ELSE "planFailed"

\* try { bundles call; ... } catch (bundlesErr) { ... }
AfterBundlesFetch(ok) == IF ok THEN "renderBundles" ELSE "bundlesFailed"

\* a cleanup that resets the state whatever it is
CleanupStateAlwaysIdle(st) == "idle"

\* finally: if (this.state === 'submitting') setState('idle')
CleanupState(st) == IF st = "submitting" THEN "idle" ELSE st

\* the result validateAndShowErrors computes from the form
CurrentValidation == ValidationOf[form]

\* firstInvalidField of validateAndShowErrors
FirstInvalid(result) ==
  IF "age" \in DOMAIN result.fieldErrors THEN "age"
  ELSE IF "concern" \in DOMAIN result.fieldErrors THEN "concern"
  ELSE IF "email" \in DOMAIN result.fieldErrors THEN "email"
  ELSE "none"

\* validateAndShowErrors up to its onEvent call: field errors and status
ShowValidation(u, result) ==
  IF result.ok
  THEN [setStatus(u, STATUS_IDLE, FALSE) EXCEPT !.shown = result.fieldErrors]
  ELSE [setStatus(u, result.formError, TRUE) EXCEPT !.shown = result.fieldErrors]

(***************************************************************************)
(* Page load                                                               *)
(***************************************************************************)
\* PlannerApp.init: resetUI
PlannerInit ==
  /\ boot = "constructed"
  /\ boot' = "inited"
  /\ ui' = [setStatus(ui, STATUS_IDLE, FALSE) EXCEPT !.spinnerHidden = TRUE,
                                                     !.shown = [f \in {} |-> ""]]
  /\ state' = "idle"
  /\ Deliver("state_change", StateChangeDetail("idle"), 0, FALSE)
  /\ last' = "init"
  /\ UNCHANGED <<others, wired, form, planSection, bundlesSection, slots, running, net, blurs>>

\* ExperienceApp.init: initFeatures, wirePlannerEvents, experience_init
ExperienceInit ==
  /\ boot = "inited"
  /\ boot' = "ready"
  /\ wired' = TRUE
  /\ exp' = ExperienceNew
  /\ calls' = calls \o Wire(emitted)
  /\ expSink' = Append(expSink, [stage |-> "experience_init", detail |-> [t |-> "obj"]])
  /\ last' = "wire"
  /\ UNCHANGED <<others, state, form, ui, planSection, bundlesSection, slots,
                 running, sink, emitted, net, blurs>>

\* a page that loads planner.js alone
PlannerAlone ==
  /\ boot = "inited"
  /\ boot' = "ready"
  /\ last' = "alone"
  /\ UNCHANGED <<others, wired, state, form, ui, planSection, bundlesSection, slots,
                 running, sink, emitted, calls, net, blurs, exp, expSink>>

(***************************************************************************)
(* The user                                                                *)
(***************************************************************************)
Quiescent == boot = "ready" /\ running = 0

EditForm(f) ==
  /\ Quiescent
  /\ f /= form
  /\ form' = f
  /\ last' = "edit"
  /\ UNCHANGED <<others, boot, wired, state, ui, planSection, bundlesSection, slots,
                 running, sink, emitted, calls, net, blurs, exp, expSink>>

\* the focus enters an input from elsewhere: no handler of the planner runs
FocusInput(f) ==
  /\ Quiescent
  /\ ui.focus = "other"
  /\ ui' = [ui EXCEPT !.focus = f]
  /\ last' = "focus"
  /\ UNCHANGED <<others, boot, wired, state, form, planSection, bundlesSection, slots,
                 running, sink, emitted, calls, net, blurs, exp, expSink>>

\* the focus leaves an input: blurHandler
Blur(to) ==
  /\ Quiescent
  /\ ui.focus \in Inputs
  /\ to /= ui.focus
  /\ blurs < MaxBlurs
  /\ blurs' = blurs + 1
  /\ last' = "blur"
  /\ IF BlurReturnsEarly(state)
     THEN /\ ui' = [ui EXCEPT !.focus = to]
          /\ NoDelivery
     ELSE LET result == CurrentValidation
          IN  /\ ui' = [ShowValidation(ui, result) EXCEPT !.focus = to]
              /\ IF result.ok THEN NoDelivery
                 ELSE Deliver("validation_failed",
                              [fieldErrors |-> result.fieldErrors], 0, FALSE)
  /\ UNCHANGED <<others, boot, wired, state, form, planSection, bundlesSection, slots,
                 running, net>>

(***************************************************************************)
(* handleSubmit, one step per onEvent call or suspension                   *)
(***************************************************************************)
ReusableSlots == {i \in SlotIds : slots[i].pc \in {"free", "done"}}

At(a, label) == running = a /\ slots[a].pc = label

Goto(a, label) == slots' = [slots EXCEPT ![a].pc = label]

\* handleSubmit is invoked: the double-submit check, then setState('validating')
HandleSubmit ==
  /\ Quiescent
  /\ last' = "submit"
  /\ IF AvoidDoubleSubmit(state)
     THEN UNCHANGED <<state, slots, running, sink, emitted, calls, net, blurs,
                      exp, expSink>>
     ELSE /\ ReusableSlots /= {}
          /\ LET a == CHOOSE i \in ReusableSlots : \A j \in ReusableSlots : i <= j
             IN  /\ slots' = [slots EXCEPT ![a] = [FreeSlot EXCEPT !.pc = "validate",
                                                                  !.formAt = form]]
                 /\ running' = a
                 /\ state' = "validating"
                 /\ Deliver("state_change", StateChangeDetail("validating"), a, TRUE)
                 /\ net' = <<>>
                 /\ blurs' = 0
  /\ UNCHANGED <<others, boot, wired, form, ui, planSection, bundlesSection>>

\* validateAndShowErrors(true), up to its first onEvent call.  Focusing the
\* first invalid field takes the focus from the input that has it, whose
\* blur handler then runs before focus() returns.
Validate(a) ==
  /\ At(a, "validate")
  /\ last' = "step"
  /\ \E result \in {CurrentValidation} :
     \E shown \in {ShowValidation(ui, result)}, first \in {FirstInvalid(result)} :
         IF result.ok
         THEN /\ ui' = shown
              /\ Goto(a, AfterValidate(TRUE))
              /\ NoDelivery
         ELSE /\ ui' = [shown EXCEPT !.focus = first]
              /\ IF ui.focus \in Inputs \ {first} /\ ~BlurReturnsEarly(state)
                 THEN /\ Deliver("validation_failed",
                                 [fieldErrors |-> result.fieldErrors], 0, FALSE)
                      /\ Goto(a, "validationFailed")
                 ELSE /\ Deliver("validation_failed",
                                 [fieldErrors |-> result.fieldErrors], a, FALSE)
                      /\ Goto(a, AfterValidate(FALSE))
  /\ UNCHANGED <<others, boot, wired, state, form, planSection, bundlesSection, running,
                 net, blurs>>

\* validateAndShowErrors: onEvent('validation_failed'), after a nested blur
EmitValidationFailed(a) ==
  /\ At(a, "validationFailed")
  /\ last' = "step"
  /\ Deliver("validation_failed", [fieldErrors |-> CurrentValidation.fieldErrors], a, FALSE)
  /\ Goto(a, AfterValidate(FALSE))
  /\ UNCHANGED <<others, boot, wired, state, form, ui, planSection, bundlesSection, running,
                 net, blurs>>

\* an early return that assigns the state without setState
RejectInvalidSilently(a) ==
  /\ At(a, "invalid")
  /\ last' = "step"
  /\ state' = InvalidState
  /\ NoDelivery
  /\ Goto(a, "done")
  /\ running' = 0
  /\ UNCHANGED <<others, boot, wired, form, ui, planSection, bundlesSection, net, blurs>>

\* if (!isValid) { setState('error'); return; }
RejectInvalid(a) ==
  /\ At(a, "invalid")
  /\ last' = "step"
  /\ state' = InvalidState
  /\ Deliver("state_change", StateChangeDetail(InvalidState), a, FALSE)
  /\ Goto(a, "done")
  /\ running' = 0
  /\ UNCHANGED <<others, boot, wired, form, ui, planSection, bundlesSection, net, blurs>>

\* payload = getPayload(); onEvent('submit', { payload })
EmitSubmit(a) ==
  /\ At(a, "payload")
  /\ last' = "step"
  /\ LET payload == PayloadOf[form]
     IN  /\ slots' = [slots EXCEPT ![a].payload = payload, ![a].pc = "toSubmitting"]
         /\ Deliver("submit", [payload |-> payload], a, FALSE)
  /\ UNCHANGED <<others, boot, wired, state, form, ui, planSection, bundlesSection, running,
                 net, blurs>>

\* a transition to 'submitting' that leaves the button and the spinner alone
SetSubmittingLeavesForm(a) ==
  /\ At(a, "toSubmitting")
  /\ last' = "step"
  /\ ui' = setStatus(ui, STATUS_LOADING, FALSE)
  /\ state' = "submitting"
  /\ Deliver("state_change", StateChangeDetail("submitting"), a, FALSE)
  /\ Goto(a, "callPlan")
  /\ UNCHANGED <<others, boot, wired, form, planSection, bundlesSection, running, net, blurs>>

\* disableForm, showSpinner, setStatus(loading), setState('submitting')
SetSubmitting(a) ==
  /\ At(a, "toSubmitting")
  /\ last' = "step"
  /\ ui' = [setStatus(ui, STATUS_LOADING, FALSE) EXCEPT !.disabled = TRUE,
                                                        !.spinnerHidden = FALSE]
  /\ state' = "submitting"
  /\ Deliver("state_change", StateChangeDetail("submitting"), a, FALSE)
  /\ Goto(a, "callPlan")
  /\ UNCHANGED <<others, boot, wired, form, planSection, bundlesSection, running, net, blurs>>

\* a jsonFetch call up to its await of fetch(): the timer is set, the request
\* is handed to fetch, the invocation is suspended
StartFetch(a, call, url, method, body, label) ==
  /\ slots' = [slots EXCEPT ![a].req = [call |-> call, timer |-> TRUE, res |-> Undefined],
                            ![a].pc = label]
  /\ net' = Append(net, [call |-> call, url |-> url, method |-> method, body |-> body,
                         by |-> a, aborted |-> FALSE])
  /\ running' = 0

\* await jsonFetch(this.planEndpoint, { method: 'POST', body: payload, ... })
CallPlan(a) ==
  /\ At(a, "callPlan")
  /\ last' = "step"
  /\ StartFetch(a, "plan", PLAN_ENDPOINT, "POST", slots[a].payload, "awaitPlan")
  /\ NoDelivery
  /\ UNCHANGED <<others, boot, wired, state, form, ui, planSection, bundlesSection, blurs>>

\* jsonFetch ran to its end (clearTimeout in its finally) and the
\* invocation resumes after its await
Resume(a, result, cause) ==
  /\ running' = a
  /\ IF slots[a].req.call = "plan"
     THEN IF result.ok
          THEN slots' = [slots EXCEPT ![a].req = Undefined, ![a].cause = cause,
                                      ![a].planData = result.value,
                                      ![a].pc = AfterPlanFetch(TRUE)]
          ELSE slots' = [slots EXCEPT ![a].req = Undefined, ![a].cause = cause,
                                      ![a].err = result.err,
                                      ![a].pc = AfterPlanFetch(FALSE)]
     ELSE IF result.ok
          THEN slots' = [slots EXCEPT ![a].req = Undefined, ![a].cause = cause,
                                      ![a].bundlesData = result.value,
                                      ![a].pc = AfterBundlesFetch(TRUE)]
          ELSE slots' = [slots EXCEPT ![a].req = Undefined, ![a].cause = cause,
                                      ![a].err = result.err,
                                      ![a].pc = AfterBundlesFetch(FALSE)]

Awaiting(a) == slots[a].pc \in {"awaitPlan", "awaitBundles"}

\* the call awaits fetch()
AwaitingFetch(a) == Awaiting(a) /\ slots[a].req.res = Undefined

\* the call has its response and awaits res.json() or res.text()
AwaitingBody(a) == Awaiting(a) /\ slots[a].req.res /= Undefined

Cause(abort, settled) == [abort |-> abort, settled |-> settled]

\* fetch() settles: a rejection goes to the catch block of jsonFetch, a
\* response is kept while its body is read
FetchSettles(a, outcome) ==
  /\ Quiescent
  /\ AwaitingFetch(a)
  /\ outcome \in (IF slots[a].req.call = "plan" THEN PlanOutcomes ELSE BundlesOutcomes)
  /\ last' = "settle"
  /\ IF outcome.type = "response"
     THEN /\ slots' = [slots EXCEPT ![a].req.res = outcome]
          /\ UNCHANGED running
     ELSE Resume(a, jsonFetch(outcome), Cause("none", outcome))
  /\ NoDelivery
  /\ UNCHANGED <<others, boot, wired, state, form, ui, planSection, bundlesSection, net, blurs>>

\* res.json() or res.text() settles with the body
BodySettles(a) ==
  /\ Quiescent
  /\ AwaitingBody(a)
  /\ last' = "body"
  /\ Resume(a, jsonFetch(slots[a].req.res), Cause("none", slots[a].req.res))
  /\ NoDelivery
  /\ UNCHANGED <<others, boot, wired, state, form, ui, planSection, bundlesSection, net, blurs>>

\* the call's timer fires before jsonFetch is through: controller.abort();
\* fetch(), or the read of the body, rejects with an AbortError
TimerFires(a) ==
  /\ Quiescent
  /\ Awaiting(a)
  /\ slots[a].req.timer
  /\ last' = "timeout"
  /\ IF AwaitingFetch(a)
     THEN Resume(a, jsonFetch(Rejection(AbortError)), Cause("fetch", Undefined))
     ELSE Resume(a, jsonFetchBodyAborted(slots[a].req.res), Cause("body", slots[a].req.res))
  /\ net' = [i \in 1..Len(net) |->
               IF net[i].by = a /\ net[i].call = slots[a].req.call
               THEN [net[i] EXCEPT !.aborted = TRUE] ELSE net[i]]
  /\ NoDelivery
  /\ UNCHANGED <<others, boot, wired, state, form, ui, planSection, bundlesSection, blurs>>

\* renderPlan(planData): heading.focus() takes the focus from the input
\* that has it, whose blur handler runs
RenderPlan(a) ==
  /\ At(a, "renderPlan")
  /\ last' = "step"
  /\ planSection' = renderPlan(slots[a].planData)
  /\ Goto(a, "planRendered")
  /\ IF ui.focus \in Inputs /\ ~BlurReturnsEarly(state)
     THEN LET result == CurrentValidation
          IN  /\ ui' = [ShowValidation(ui, result) EXCEPT !.focus = "other"]
              /\ IF result.ok THEN NoDelivery
                 ELSE Deliver("validation_failed",
                              [fieldErrors |-> result.fieldErrors], 0, FALSE)
     ELSE /\ ui' = [ui EXCEPT !.focus = "other"]
          /\ NoDelivery
  /\ UNCHANGED <<others, boot, wired, state, form, bundlesSection, running, net, blurs>>

\* onEvent('plan_success', { plan: planData })
EmitPlanSuccess(a) ==
  /\ At(a, "planRendered")
  /\ last' = "step"
  /\ Deliver("plan_success", [plan |-> slots[a].planData], a, FALSE)
  /\ Goto(a, "callBundles")
  /\ UNCHANGED <<others, boot, wired, state, form, ui, planSection, bundlesSection, running,
                 net, blurs>>

\* a bundles call that reads the concern from the form again
CallBundlesReadsForm(a) ==
  /\ At(a, "callBundles")
  /\ last' = "step"
  /\ StartFetch(a, "bundles", bundlesEndpoint(getTrimmedValue(form.concern)), "GET",
                Undefined, "awaitBundles")
  /\ NoDelivery
  /\ UNCHANGED <<others, boot, wired, state, form, ui, planSection, bundlesSection, blurs>>

\* await jsonFetch(this.bundlesEndpoint(payload.concern), { method: 'GET', ... })
CallBundles(a) ==
  /\ At(a, "callBundles")
  /\ last' = "step"
  /\ StartFetch(a, "bundles", bundlesEndpoint(slots[a].payload.concern), "GET",
                Undefined, "awaitBundles")
  /\ NoDelivery
  /\ UNCHANGED <<others, boot, wired, state, form, ui, planSection, bundlesSection, blurs>>

\* renderBundles(bundlesData); onEvent('bundles_success', { bundles })
BundlesSucceeded(a) ==
  /\ At(a, "renderBundles")
  /\ last' = "step"
  /\ bundlesSection' = renderBundles(slots[a].bundlesData)
  /\ Deliver("bundles_success", [bundles |-> slots[a].bundlesData], a, FALSE)
  /\ Goto(a, "bundlesRendered")
  /\ UNCHANGED <<others, boot, wired, state, form, ui, planSection, running, net, blurs>>

\* setStatus(success); onEvent('success', { plan, bundles })
EmitSuccess(a) ==
  /\ At(a, "bundlesRendered")
  /\ last' = "step"
  /\ ui' = setStatus(ui, STATUS_SUCCESS, FALSE)
  /\ Deliver("success", [plan |-> slots[a].planData, bundles |-> slots[a].bundlesData],
             a, FALSE)
  /\ Goto(a, "succeeded")
  /\ UNCHANGED <<others, boot, wired, state, form, planSection, bundlesSection, running,
                 net, blurs>>

\* setState('success')
SetSuccess(a) ==
  /\ At(a, "succeeded")
  /\ last' = "step"
  /\ state' = "success"
  /\ Deliver("state_change", StateChangeDetail("success"), a, FALSE)
  /\ Goto(a, "finally")
  /\ UNCHANGED <<others, boot, wired, form, ui, planSection, bundlesSection, running, net, blurs>>

\* a bundles catch that also empties the plan section
BundlesFailedClearsPlan(a) ==
  /\ At(a, "bundlesFailed")
  /\ last' = "step"
  /\ bundlesSection' = renderBundles(Null)
  /\ planSection' = Blank
  /\ ui' = setStatus(ui, STATUS_PARTIAL_BUNDLES_ERROR, TRUE)
  /\ Deliver("bundles_error", slots[a].err, a, FALSE)
  /\ Goto(a, "bundlesErrorEmitted")
  /\ UNCHANGED <<others, boot, wired, state, form, running, net, blurs>>

\* catch (bundlesErr): renderBundles(null), setStatus(partial, true),
\* onEvent('bundles_error', bundlesErr)
BundlesFailed(a) ==
  /\ At(a, "bundlesFailed")
  /\ last' = "step"
  /\ bundlesSection' = renderBundles(Null)
  /\ ui' = setStatus(ui, STATUS_PARTIAL_BUNDLES_ERROR, TRUE)
  /\ Deliver("bundles_error", slots[a].err, a, FALSE)
  /\ Goto(a, "bundlesErrorEmitted")
  /\ UNCHANGED <<others, boot, wired, state, form, planSection, running, net, blurs>>

\* catch (bundlesErr): setState('error')
SetErrorAfterBundles(a) ==
  /\ At(a, "bundlesErrorEmitted")
  /\ last' = "step"
  /\ state' = BundlesErrorState
  /\ Deliver("state_change", StateChangeDetail(BundlesErrorState), a, FALSE)
  /\ Goto(a, "finally")
  /\ UNCHANGED <<others, boot, wired, form, ui, planSection, bundlesSection, running, net, blurs>>

\* a catch that also empties the plan section and the bundles section
PlanFailedClearsSections(a) ==
  /\ At(a, "planFailed")
  /\ last' = "step"
  /\ planSection' = Blank
  /\ bundlesSection' = renderBundles(Null)
  /\ LET resolved == resolveError(slots[a].err)
     IN  /\ ui' = setStatus(ui, resolved.message, TRUE)
         /\ Deliver("error", resolved, a, FALSE)
  /\ Goto(a, "errorEmitted")
  /\ UNCHANGED <<others, boot, wired, state, form, running, net, blurs>>

\* catch (err): resolveError, setStatus(resolved.message, true),
\* onEvent('error', resolved)
PlanFailed(a) ==
  /\ At(a, "planFailed")
  /\ last' = "step"
  /\ LET resolved == resolveError(slots[a].err)
     IN  /\ ui' = setStatus(ui, resolved.message, TRUE)
         /\ Deliver("error", resolved, a, FALSE)
  /\ Goto(a, "errorEmitted")
  /\ UNCHANGED <<others, boot, wired, state, form, planSection, bundlesSection, running,
                 net, blurs>>

\* catch (err): setState('error')
SetErrorAfterPlan(a) ==
  /\ At(a, "errorEmitted")
  /\ last' = "step"
  /\ state' = "error"
  /\ Deliver("state_change", StateChangeDetail("error"), a, FALSE)
  /\ Goto(a, "finally")
  /\ UNCHANGED <<others, boot, wired, form, ui, planSection, bundlesSection, running, net, blurs>>

\* a cleanup that leaves the spinner and the disabled button as they are
FinallyKeepsBusy(a) ==
  /\ At(a, "finally")
  /\ last' = "step"
  /\ state' = CleanupState(state)
  /\ IF CleanupState(state) /= state
     THEN Deliver("state_change", StateChangeDetail(CleanupState(state)), a, FALSE)
     ELSE NoDelivery
  /\ Goto(a, "done")
  /\ running' = 0
  /\ UNCHANGED <<others, boot, wired, form, ui, planSection, bundlesSection, net, blurs>>

\* finally: hideSpinner, enableForm, and setState('idle') if still submitting
Finally(a) ==
  /\ At(a, "finally")
  /\ last' = "step"
  /\ ui' = [ui EXCEPT !.spinnerHidden = TRUE, !.disabled = FALSE]
  /\ state' = CleanupState(state)
  /\ IF CleanupState(state) /= state
     THEN Deliver("state_change", StateChangeDetail(CleanupState(state)), a, FALSE)
     ELSE NoDelivery
  /\ Goto(a, "done")
  /\ running' = 0
  /\ UNCHANGED <<others, boot, wired, form, planSection, bundlesSection, net, blurs>>

(***************************************************************************)
(* Specification                                                           *)
(***************************************************************************)
Step(a) ==
  \/ Validate(a)
  \/ EmitValidationFailed(a)
  \/ RejectInvalid(a)
  \/ EmitSubmit(a)
  \/ SetSubmitting(a)
  \/ CallPlan(a)
  \/ RenderPlan(a)
  \/ EmitPlanSuccess(a)
  \/ CallBundles(a)
  \/ BundlesSucceeded(a)
  \/ EmitSuccess(a)
  \/ SetSuccess(a)
  \/ BundlesFailed(a)
  \/ SetErrorAfterBundles(a)
  \/ PlanFailed(a)
  \/ SetErrorAfterPlan(a)
  \/ Finally(a)

Next ==
  \/ PlannerInit
  \/ ExperienceInit
  \/ PlannerAlone
  \/ \E f \in Forms : EditForm(f)
  \/ \E f \in Inputs : FocusInput(f)
  \/ \E to \in Inputs \cup {"other"} : Blur(to)
  \/ HandleSubmit
  \/ \E a \in SlotIds : \E o \in PlanOutcomes \cup BundlesOutcomes : FetchSettles(a, o)
  \/ \E a \in SlotIds : BodySettles(a)
  \/ \E a \in SlotIds : TimerFires(a)
  \/ \E a \in SlotIds : Step(a)

Spec == Init /\ [][Next]_vars

\* what ends a jsonFetch call that is awaited
Settle(a) ==
  \/ \E o \in PlanOutcomes \cup BundlesOutcomes : FetchSettles(a, o)
  \/ BodySettles(a)
  \/ TimerFires(a)

\* A handler that has control runs to its next await or to its end; a call
\* that is awaited ends: fetch() settles, the body arrives, or the timer set
\* by jsonFetch fires.
FairSpec ==
  /\ Spec
  /\ \A a \in SlotIds : WF_vars(Step(a))
  /\ \A a \in SlotIds : WF_vars(Settle(a))

(***************************************************************************)
(* validateFields on its own: called with raw values around its bounds     *)
(***************************************************************************)
Chars(n) == [i \in 1..n |-> "a"]

AgeInputs ==
  {<<>>, <<" ">>, <<"0">>, <<"1">>, <<"6", "0", "0">>, <<"6", "0", "1">>,
   <<" ", "1", "2", " ">>, <<"-", "5">>, <<"0", ".", "5">>, <<"1", ".", "5">>,
   <<"6", "0", "0", ".", "5">>, <<"a", "b", "c">>,
   <<"I", "n", "f", "i", "n", "i", "t", "y">>}

ConcernInputs ==
  {<<>>, <<" ", " ">>, Chars(2), <<" ">> \o Chars(2) \o <<" ">>, Chars(3),
   Chars(MAX_CONCERN_LEN), <<" ">> \o Chars(MAX_CONCERN_LEN) \o <<" ">>,
   Chars(MAX_CONCERN_LEN + 1)}

EmailInputs ==
  {<<>>, <<" ">>, <<"a", "@", "b", ".", "c">>, <<" ", "a", "@", "b", ".", "c", " ">>,
   <<"b", "a", "d">>, <<"a", "@", "b">>, <<"a", " ", "b", "@", "c", ".", "d">>,
   <<"@", "b", ".", "c">>, <<"a", "@", "b", ".">>, <<"a", "@", "@", "b", ".", "c">>,
   <<"a", "@", ".", "c">>}

ValidatorInit ==
  /\ PlannerNew /\ HandlerIdle /\ TimersIdle /\ AsyncIdle
  /\ fields \in [age : AgeInputs, concern : ConcernInputs, email : EmailInputs]
  /\ validated = Undefined

\* validateFields(ageRaw, concernRaw, emailRaw)
CallValidateFields ==
  /\ validated = Undefined
  /\ validated' = validateFields(fields.age, fields.concern, fields.email)
  /\ UNCHANGED <<fields, plannerVars, handlerVars, timerVars, asyncVars>>

ValidatorSpec == ValidatorInit /\ [][CallValidateFields]_vars

(***************************************************************************)
(* The page with sinks and subscribers that may throw while they handle    *)
(* plan_success, bundles_success or success, and with a plan endpoint that *)
(* may answer a step that is not a string.  The exception leaves onEvent   *)
(* inside handleSubmit's try blocks.                                       *)
(***************************************************************************)
\* onEvent('plan_success', ...) throws: the outer catch has the exception
EmitPlanSuccessThrows(a, who) ==
  /\ At(a, "planRendered")
  /\ last' = "step"
  /\ DeliverThrows("plan_success", [plan |-> slots[a].planData], a, who)
  /\ slots' = [slots EXCEPT ![a].pc = "planFailed",
                            ![a].err = IF who = "subscriber" THEN TrimTypeError
                                       ELSE SinkError]
  /\ UNCHANGED <<others, boot, wired, state, form, ui, planSection, bundlesSection, running,
                 net, blurs>>

\* renderBundles, then onEvent('bundles_success', ...) throws: the inner catch
\* has the exception
BundlesSucceededThrows(a) ==
  /\ At(a, "renderBundles")
  /\ last' = "step"
  /\ bundlesSection' = renderBundles(slots[a].bundlesData)
  /\ DeliverThrows("bundles_success", [bundles |-> slots[a].bundlesData], a, "sink")
  /\ slots' = [slots EXCEPT ![a].pc = "bundlesFailed", ![a].err = SinkError]
  /\ UNCHANGED <<others, boot, wired, state, form, ui, planSection, running, net, blurs>>

\* setStatus(success), then onEvent('success', ...) throws: the inner catch
\* has the exception
EmitSuccessThrows(a) ==
  /\ At(a, "bundlesRendered")
  /\ last' = "step"
  /\ ui' = setStatus(ui, STATUS_SUCCESS, FALSE)
  /\ DeliverThrows("success", [plan |-> slots[a].planData,
                               bundles |-> slots[a].bundlesData], a, "sink")
  /\ slots' = [slots EXCEPT ![a].pc = "bundlesFailed", ![a].err = SinkError]
  /\ UNCHANGED <<others, boot, wired, state, form, planSection, bundlesSection, running,
                 net, blurs>>

\* the steps of handleSubmit, each onEvent call of the try blocks returning
\* or throwing
ThrowStep(a) ==
  \/ Validate(a)
  \/ RejectInvalid(a)
  \/ EmitSubmit(a)
  \/ SetSubmitting(a)
  \/ CallPlan(a)
  \/ RenderPlan(a)
  \/ EmitPlanSuccess(a)
  \/ \E who \in {"sink", "subscriber"} : EmitPlanSuccessThrows(a, who)
  \/ CallBundles(a)
  \/ BundlesSucceeded(a)
  \/ BundlesSucceededThrows(a)
  \/ EmitSuccess(a)
  \/ EmitSuccessThrows(a)
  \/ SetSuccess(a)
  \/ BundlesFailed(a)
  \/ SetErrorAfterBundles(a)
  \/ PlanFailed(a)
  \/ SetErrorAfterPlan(a)
  \/ Finally(a)

\* fetch() settles here with the plan, the plan with a number for a step, the
\* bundles, or a network failure
ThrowNext ==
  \/ PlannerInit
  \/ ExperienceInit
  \/ PlannerAlone
  \/ EditForm(FormValid)
  \/ HandleSubmit
  \/ \E a \in SlotIds :
       \E o \in {Response(200, BODY_PLAN), Response(200, BODY_NUMSTEP),
                 Response(200, BODY_BUNDLES), Rejection(NetworkFailure)} :
         FetchSettles(a, o)
  \/ \E a \in SlotIds : BodySettles(a)
  \/ \E a \in SlotIds : ThrowStep(a)

ThrowSpec == Init /\ [][ThrowNext]_vars

(***************************************************************************)
(* The experience layer on its own: handlePlannerEvent is called with any  *)
(* stream of planner events, and the user adds entries to the two lists.   *)
(* sink holds the events handed over, expSink what was forwarded last.     *)
(***************************************************************************)
WidgetEvents ==
  {[stage |-> "plan_success", detail |-> [plan |-> p]] :
     p \in {Null, JSONParse(BODY_PLAN), JSONParse(BODY_NOSTEPS)}}
  \cup {[stage |-> "bundles_success", detail |-> [bundles |-> b]] :
          b \in {Null, JSONParse(BODY_BUNDLES), JSONParse(BODY_NOBUNDLES)}}
  \cup {[stage |-> "plan_success", detail |-> Undefined],
        [stage |-> "bundles_error", detail |-> NetworkFailure],
        [stage |-> "state_change", detail |-> [state |-> "error"]]}

widgetFrame == <<boot, wired, state, form, ui, planSection, bundlesSection, slots,
                 running, emitted, calls, net, blurs, others>>

\* the patched onEvent's call of handlePlannerEvent(stage, detail)
PlannerEventArrives(ev) ==
  /\ Len(sink) < MaxEvents
  /\ sink' = Append(sink, ev)
  /\ exp' = handlePlannerEvent(exp, ev.stage, ev.detail)
  /\ expSink' = ForwardPlannerEvent(<<>>, ev.stage, ev.detail)
  /\ last' = "event"
  /\ UNCHANGED widgetFrame

\* MilestoneTracker.addMilestone: prompt, push, save
AddMilestone(label) ==
  /\ Len(SelectSeq(exp.milestones.milestones, LAMBDA m : m.id = "custom-1")) < MaxItems
  /\ LET pushed == Append(exp.milestones.milestones,
                          [id |-> "custom-1", label |-> Trim(label), done |-> FALSE])
     IN  exp' = [exp EXCEPT !.milestones = [milestones |-> pushed, stored |-> pushed]]
  /\ expSink' = <<[stage |-> "milestone_added", detail |-> [label |-> Trim(label)]]>>
  /\ last' = "add"
  /\ UNCHANGED <<sink, widgetFrame>>

\* RegistryBuilder.handleAdd: push, save
RegistryAdd(name) ==
  /\ Trim(name) /= <<>>
  /\ Len(SelectSeq(exp.registry.items, LAMBDA i : i.id = "custom-1")) < MaxItems
  /\ LET pushed == Append(exp.registry.items, [id |-> "custom-1", name |-> Trim(name)])
     IN  exp' = [exp EXCEPT !.registry = [items |-> pushed, stored |-> pushed]]
  /\ expSink' = <<[stage |-> "registry_item_added", detail |-> [name |-> Trim(name)]]>>
  /\ last' = "add"
  /\ UNCHANGED <<sink, widgetFrame>>

WidgetNext ==
  \/ \E ev \in WidgetEvents : PlannerEventArrives(ev)
  \/ AddMilestone(<<"w", "a", "l", "k", " ">>)
  \/ RegistryAdd(<<"c", "o", "t">>)

WidgetSpec == Init /\ [][WidgetNext]_vars

(***************************************************************************)
(* The static-asset handler (two copies of one function).  Texts are       *)
(* sequences of characters; a string value is Str(text) and an unset value *)
(* is Undefined, so that === is equality.  The Authorization header is its *)
(* space-separated tokens; a token that is the base64 encoding of a text   *)
(* is Base64(text), and decoding it gives the text back.                   *)
(***************************************************************************)
Base64(text) == [t |-> "b64", of |-> text]

\* String.prototype.split(c)
RECURSIVE SplitOn(_, _)
SplitOn(s, c) ==
  IF \A i \in 1..Len(s) : s[i] /= c THEN <<s>>
  ELSE LET k == CHOOSE i \in 1..Len(s) : s[i] = c /\ \A j \in 1..(i - 1) : s[j] /= c
       IN  <<SubSeq(s, 1, k - 1)>> \o SplitOn(SubSeq(s, k + 1, Len(s)), c)

\* path.join's normalisation of an absolute path, as its segments: "" and "."
\* are dropped, ".." drops the segment before it
RECURSIVE PathNormalize(_, _)
PathNormalize(segs, acc) ==
  IF segs = <<>> THEN acc
  ELSE PathNormalize(Tail(segs),
         IF Head(segs) \in {<<>>, <<".">>} THEN acc
         ELSE IF Head(segs) = <<".", ".">>
              THEN SubSeq(acc, 1, Len(acc) - 1)
              ELSE Append(acc, Head(segs)))

\* replace(/\.\./g, ''), within one segment: every ".." met from the left goes
RECURSIVE RemoveDotDot(_)
RemoveDotDot(s) ==
  IF s = <<>> THEN <<>>
  ELSE IF Len(s) >= 2 /\ s[1] = "." /\ s[2] = "." THEN RemoveDotDot(SubSeq(s, 3, Len(s)))
  ELSE <<s[1]>> \o RemoveDotDot(Tail(s))

\* path.join(process.cwd(), 'frontend', 'public'), with cwd /app
PublicDir == << <<"a", "p", "p">>, <<"f", "r", "o", "n", "t", "e", "n", "d">>,
               <<"p", "u", "b", "l", "i", "c">> >>

IndexHtml == <<"i", "n", "d", "e", "x", ".", "h", "t", "m", "l">>

\* the regular files of the machine
Files ==
  {PublicDir \o <<IndexHtml>>,
   PublicDir \o << <<"c", "s", "s">>, <<"s", ".", "c", "s", "s">> >>,
   PublicDir \o << <<"a", "b", ".", "t", "x", "t">> >>,
   << <<"a", "p", "p">>, <<".", "e", "n", "v">> >>,
   << <<"e", "t", "c">>, <<"p", "a", "s", "s", "w", "d">> >>}

\* handler(req, res): the response it sends and the file it reads
handler(req, environment) ==
  LET tokens == IF req.authorization = Undefined THEN <<>> ELSE req.authorization.tokens
      decoded == IF Len(tokens) >= 2 /\ tokens[2].t = "b64" THEN tokens[2].of ELSE <<>>
      parts == SplitOn(decoded, ":")
      username == Str(parts[1])
      password == IF Len(parts) >= 2 THEN Str(parts[2]) ELSE Undefined
      joined == PathNormalize(PublicDir \o (IF req.url = <<"/">> THEN <<IndexHtml>>
                                              ELSE SplitOn(req.url, "/")), <<>>)
      stripped == [i \in 1..Len(joined) |-> RemoveDotDot(joined[i])]
      filePath == PathNormalize(stripped, <<>>)
      name == filePath[Len(filePath)]
      dots == {i \in 2..Len(name) : name[i] = "."}
      ext == IF dots = {} THEN <<>>
             ELSE SubSeq(name, CHOOSE i \in dots : \A j \in dots : j <= i, Len(name))
      contentType == CASE ext = <<".", "h", "t", "m", "l">> -> "text/html"
                       [] ext = <<".", "c", "s", "s">> -> "text/css"
                       [] ext = <<".", "t", "x", "t">> -> "text/plain"
                       [] OTHER -> "application/octet-stream"
  IN  IF username = environment.USER /\ password = environment.PASS
      THEN IF filePath \in Files
           THEN [status |-> 200, read |-> filePath, contentType |-> contentType]
           ELSE [status |-> 404, read |-> <<>>, contentType |-> ""]
      ELSE [status |-> 401, read |-> <<>>, contentType |-> ""]

\* the environment with each value set or unset; a request without the
\* header, or with a header of scheme B(asic) or X and credentials that are
\* right, partial or wrong; a URL inside the public directory or leaving it
HandlerInit ==
  /\ PlannerNew /\ ValidatorIdle /\ TimersIdle /\ AsyncIdle
  /\ env \in [USER : {Undefined, Str(<<"u">>)}, PASS : {Undefined, Str(<<"p">>)}]
  /\ request \in
       [authorization :
          {Undefined} \cup
          {[t |-> "header", tokens |-> tk] :
             tk \in {<<Str(<<"B">>)>>, <<Str(<<"B">>), Str(<<>>), Base64(<<"u", ":", "p">>)>>}
                    \cup {<<Str(scheme), Base64(text)>> :
                            scheme \in {<<"B">>, <<"X">>},
                            text \in {<<"u", ":", "p">>, <<"u">>, <<"u", ":", "x">>,
                                      <<"u", ":", "p", ":", "z">>, <<>>}}},
        url : {<<"/">>, <<"/">> \o IndexHtml,
               <<"/", "c", "s", "s", "/", "s", ".", "c", "s", "s">>,
               <<"/", "c", "s", "s">>, <<"/", "n", "o">>,
               <<"/", "a", ".", ".", "b", ".", "t", "x", "t">>,
               <<"/", ".", ".", "/", ".", ".", "/", ".", "e", "n", "v">>,
               <<"/", ".", ".", "/", ".", ".", "/", ".", ".", "/", "e", "t", "c", "/",
                 "p", "a", "s", "s", "w", "d">>}]
  /\ response = Undefined

\* one request is handled
HandleRequest ==
  /\ response = Undefined
  /\ response' = handler(request, env)
  /\ UNCHANGED <<env, request, plannerVars, validatorVars, timerVars, asyncVars>>

HandlerSpec == HandlerInit /\ [][HandleRequest]_vars

(***************************************************************************)
(* The timers of jsonFetch, with time.  One attempt makes the plan call    *)
(* and, when it returned, the bundles call; each call sets a timeout that  *)
(* aborts the call's own AbortController and clears it in its finally.     *)
(***************************************************************************)
\* setTimeout(() => controller.abort(), timeoutMs) of call i at time now
SetTimeout(ts, i, now) == ts \cup {[id |-> i, due |-> now + TimeoutTicks]}

\* a finally block that leaves the timeout set
ClearTimeoutKeeps(ts, i) == ts

\* clearTimeout(id) of call i
ClearTimeout(ts, i) == {t \in ts : t.id /= i}

CallNames == <<"plan", "bundles">>

\* jsonFetch is called: the plan call first, the bundles call when the plan
\* call returned
JsonFetchStarts ==
  /\ Len(fetches) < Len(CallNames)
  /\ Len(fetches) > 0 => fetches[Len(fetches)].status = "returned"
  /\ fetches' = Append(fetches, [call |-> CallNames[Len(fetches) + 1], started |-> clock,
                                 status |-> "pending", ended |-> clock])
  /\ timers' = SetTimeout(timers, Len(fetches) + 1, clock)
  /\ UNCHANGED <<clock, plannerVars, validatorVars, handlerVars, asyncVars>>

\* time passes; a timeout that is due runs before time passes further
Tick ==
  /\ clock < MaxClock
  /\ \A t \in timers : t.due > clock
  /\ clock' = clock + 1
  /\ UNCHANGED <<timers, fetches, plannerVars, validatorVars, handlerVars, asyncVars>>

\* the timeout's callback: controller.abort() of the call that set it; a
\* pending call rejects with AbortError, throws the timeout error and clears
\* its (spent) timeout
TimerCallback(t) ==
  /\ t \in timers
  /\ t.due <= clock
  /\ fetches' = IF t.id \in DOMAIN fetches /\ fetches[t.id].status = "pending"
                THEN [fetches EXCEPT ![t.id].status = "timeout", ![t.id].ended = clock]
                ELSE fetches
  /\ timers' = ClearTimeout(timers \ {t}, t.id)
  /\ UNCHANGED <<clock, plannerVars, validatorVars, handlerVars, asyncVars>>

\* the call returns or throws before its timeout: finally clears the timeout
JsonFetchSettles(i, how) ==
  /\ i \in DOMAIN fetches
  /\ fetches[i].status = "pending"
  /\ fetches' = [fetches EXCEPT ![i].status = how, ![i].ended = clock]
  /\ timers' = ClearTimeout(timers, i)
  /\ UNCHANGED <<clock, plannerVars, validatorVars, handlerVars, asyncVars>>

\* the attempt is over and the next submission begins
NextAttempt ==
  /\ Len(fetches) > 0
  /\ \/ fetches[Len(fetches)].status \in {"failed", "timeout"}
     \/ Len(fetches) = Len(CallNames) /\ fetches[Len(fetches)].status = "returned"
  /\ fetches' = <<>>
  /\ UNCHANGED <<clock, timers, plannerVars, validatorVars, handlerVars, asyncVars>>

TimerNext ==
  \/ JsonFetchStarts
  \/ Tick
  \/ \E t \in timers : TimerCallback(t)
  \/ \E i \in 1..Len(CallNames) : \E how \in {"returned", "failed"} : JsonFetchSettles(i, how)
  \/ NextAttempt

TimerSpec == Init /\ [][TimerNext]_vars

(***************************************************************************)
(* GrokQuiz.handleSubmit (experience.js), on its own                       *)
(***************************************************************************)
\* GrokQuiz after its constructor and init, no planner event having arrived:
\* results names what the results element shows, flight holds the payloads
\* of the requests handed to jsonFetch and not settled, events the calls of
\* config.onEvent, submits counts the submit events, step is the last step
QuizInit ==
  /\ PlannerNew /\ ValidatorIdle /\ HandlerIdle /\ TimersIdle
  /\ toggle = Undefined
  /\ quiz = [loading |-> FALSE, results |-> "", flight |-> <<>>, events |-> <<>>,
             submits |-> 0, step |-> "new"]

\* a handleSubmit without the loading check
GrokQuizSubmitUnguarded(answer) ==
  /\ quiz.submits < MaxQuizSubmits
  /\ quiz' = [quiz EXCEPT !.submits = @ + 1,
                          !.step = "sent",
                          !.loading = TRUE,
                          !.results = "QUIZ_LOADING",
                          !.flight = Append(@, [answer |-> answer])]
  /\ UNCHANGED <<plannerVars, validatorVars, handlerVars, timerVars, toggle>>

\* handleSubmit up to its await: if (this.loading) return; loading = true;
\* the results show QUIZ_LOADING; buildPayload (latestPlan and latestBundles
\* are null); jsonFetch is called
GrokQuizSubmit(answer) ==
  /\ quiz.submits < MaxQuizSubmits
  /\ IF quiz.loading
     THEN quiz' = [quiz EXCEPT !.submits = @ + 1, !.step = "ignored"]
     ELSE quiz' = [quiz EXCEPT !.submits = @ + 1,
                               !.step = "sent",
                               !.loading = TRUE,
                               !.results = "QUIZ_LOADING",
                               !.flight = Append(@, [answer |-> answer])]
  /\ UNCHANGED <<plannerVars, validatorVars, handlerVars, timerVars, toggle>>

\* handleSubmit from the settling of its jsonFetch call to its end.  A call
\* that returns: renderResults(data) and grok_quiz_success, or, when data is
\* null, the TypeError of data.items, caught like a rejection.  The catch
\* block shows QUIZ_ERROR and emits grok_quiz_error.  finally: loading = false.
GrokQuizSettles(i, outcome) ==
  /\ i \in 1..Len(quiz.flight)
  /\ LET returned == outcome.type = "data" /\ outcome.data /= Null
         shown == IF ~returned THEN "QUIZ_ERROR"
                  ELSE IF outcome.data.items = <<>> /\ outcome.data.videos = <<>>
                  THEN "QUIZ_EMPTY"
                  ELSE "lists"
     IN  quiz' = [quiz EXCEPT
                    !.step = "settled",
                    !.loading = FALSE,
                    !.results = shown,
                    !.flight = SubSeq(@, 1, i - 1) \o SubSeq(@, i + 1, Len(@)),
                    !.events = Append(@, IF returned THEN "grok_quiz_success"
                                         ELSE "grok_quiz_error")]
  /\ UNCHANGED <<plannerVars, validatorVars, handlerVars, timerVars, toggle>>

\* what the jsonFetch call of the quiz ends with: a response with items, an
\* empty body (read as {}), the body null, a rejection
QuizOutcomes ==
  {[type |-> "data", data |-> [t |-> "obj", items |-> <<"crib">>, videos |-> <<>>]],
   [type |-> "data", data |-> [t |-> "obj", items |-> <<>>, videos |-> <<>>]],
   [type |-> "data", data |-> Null],
   [type |-> "rejection", data |-> Undefined]}

QuizNext ==
  \/ \E answer \in {"a", "b", "c"} : GrokQuizSubmit(answer)
  \/ \E i \in 1..MaxQuizSubmits : \E outcome \in QuizOutcomes : GrokQuizSettles(i, outcome)

QuizSpec == QuizInit /\ [][QuizNext]_vars

(***************************************************************************)
(* SelfEvolutionToggle (experience.js), on its own                         *)
(***************************************************************************)
\* the checkbox as the page has it; flight holds the enabled values of the
\* requests not settled, accepted the values of the requests the webhook
\* accepted, in the order it answered
ToggleInit ==
  /\ PlannerNew /\ ValidatorIdle /\ HandlerIdle /\ TimersIdle
  /\ quiz = Undefined
  /\ \E initial \in BOOLEAN :
       toggle = [checked |-> initial, initial |-> initial, flight |-> <<>>,
                 accepted |-> <<>>, events |-> <<>>, changes |-> 0]

\* the user clicks the checkbox: the browser flips it and dispatches change;
\* handleChange(this.checkbox.checked) up to its await
ToggleChange ==
  /\ toggle.changes < MaxToggleChanges
  /\ toggle' = [toggle EXCEPT !.changes = @ + 1,
                              !.checked = ~@,
                              !.flight = Append(@, ~toggle.checked)]
  /\ UNCHANGED <<plannerVars, validatorVars, handlerVars, timerVars, quiz>>

\* handleChange(enabled) from the settling of its jsonFetch call: the event
\* self_evolution_toggle, or the catch block: alert, checked = !enabled,
\* self_evolution_error
ToggleSettles(i, ok) ==
  /\ i \in 1..Len(toggle.flight)
  /\ LET enabled == toggle.flight[i]
         rest == SubSeq(toggle.flight, 1, i - 1)
                   \o SubSeq(toggle.flight, i + 1, Len(toggle.flight))
     IN  toggle' = IF ok
                   THEN [toggle EXCEPT !.flight = rest,
                                       !.accepted = Append(@, enabled),
                                       !.events = Append(@, "self_evolution_toggle")]
                   ELSE [toggle EXCEPT !.flight = rest,
                                       !.checked = ~enabled,
                                       !.events = Append(@, "self_evolution_error")]
  /\ UNCHANGED <<plannerVars, validatorVars, handlerVars, timerVars, quiz>>

ToggleNext ==
  \/ ToggleChange
  \/ \E i \in 1..MaxToggleChanges : \E ok \in BOOLEAN : ToggleSettles(i, ok)

ToggleSpec == ToggleInit /\ [][ToggleNext]_vars

(***************************************************************************)
(* Vocabulary of the properties                                            *)
(***************************************************************************)
FormIsValid(f) == ValidationOf[f].ok

\* the onEvent calls made by invocation a, in order
EventsBy(a) == SelectSeq(emitted, LAMBDA e : e.by = a)

Label(e) == IF e.stage = "state_change" THEN "state_change:" \o e.detail.state ELSE e.stage

Labels(seq) == [i \in 1..Len(seq) |-> Label(seq[i])]

\* the stages other than state_change of invocation a, in order
StagesBy(a) == Labels(SelectSeq(emitted, LAMBDA e : e.by = a /\ e.stage /= "state_change"))

\* the requests of one kind invocation a handed to fetch()
RequestsBy(a, call) == {i \in 1..Len(net) : net[i].by = a /\ net[i].call = call}

Finished(a) == slots[a].pc = "done"

InFlight(a) == slots[a].req /= Undefined

PrimarySucceeded(a) == slots[a].planData /= Undefined
SecondarySucceeded(a) == slots[a].bundlesData /= Undefined
\* the primary call returned and the secondary call threw
PartialFailure(a) == PrimarySucceeded(a) /\ slots[a].err /= Undefined

(***************************************************************************)
(* C1: a submit whose field values validateFields rejects issues no        *)
(* request, neither primary nor secondary, ends in state 'error', and      *)
(* emits validation_failed with a non-empty fieldErrors mapping.           *)
(***************************************************************************)
C1_InvalidSubmitStaysLocal ==
  \A a \in SlotIds :
    (Finished(a) /\ ~FormIsValid(slots[a].formAt)) =>
      /\ RequestsBy(a, "plan") = {}
      /\ RequestsBy(a, "bundles") = {}
      /\ state = "error"
      /\ \E i \in 1..Len(emitted) :
           /\ emitted[i].by = a
           /\ emitted[i].stage = "validation_failed"
           /\ DOMAIN emitted[i].detail.fieldErrors /= {}

C1_Witness ==
  \E a \in SlotIds :
    /\ Finished(a)
    /\ slots[a].formAt = FormShortConcern
    /\ state = "error"
    /\ StagesBy(a) = <<"validation_failed">>

(***************************************************************************)
(* C2: an accepted submit with valid fields issues exactly one primary     *)
(* request; it issues exactly one secondary request if the primary call    *)
(* succeeded and none if it failed; no call is issued a second time.       *)
(***************************************************************************)
C2_OnePrimaryThenAtMostOneSecondary ==
  \A a \in SlotIds :
    (slots[a].pc /= "free" /\ FormIsValid(slots[a].formAt)) =>
      LET np == Cardinality(RequestsBy(a, "plan"))
          nb == Cardinality(RequestsBy(a, "bundles"))
      IN  /\ np <= 1
          /\ nb <= 1
          /\ ~PrimarySucceeded(a) => nb = 0
          /\ Finished(a) => np = 1 /\ nb = (IF PrimarySucceeded(a) THEN 1 ELSE 0)

C2_Witness ==
  \E a \in SlotIds :
    /\ Finished(a)
    /\ FormIsValid(slots[a].formAt)
    /\ ~PrimarySucceeded(a)
    /\ Cardinality(RequestsBy(a, "plan")) = 1
    /\ slots[a].err.message = "HTTP 500: boom"

(***************************************************************************)
(* C3: when the primary call succeeded and the secondary call failed, the  *)
(* plan shown at the end of the attempt is the rendering of the primary    *)
(* call's result, and the bundles section shows the empty state.           *)
(***************************************************************************)
C3_PartialFailureKeepsPlan ==
  \A a \in SlotIds :
    (Finished(a) /\ PartialFailure(a)) =>
      /\ planSection = renderPlan(slots[a].planData)
      /\ bundlesSection = renderBundles(Null)

C3_Witness ==
  \E a \in SlotIds :
    /\ Finished(a)
    /\ PartialFailure(a)
    /\ slots[a].err.message = "timeout"
    /\ Len(planSection.steps) = 2

(***************************************************************************)
(* C4: a submit invoked while the state is 'submitting' changes nothing:   *)
(* no request, no state transition, no event, and the suspended attempt    *)
(* is left as it was.                                                      *)
(***************************************************************************)
C4_SubmitWhileSubmittingIsNoOp ==
  [][(state = "submitting" /\ running = 0 /\ last' = "submit") =>
       UNCHANGED <<boot, wired, state, form, ui, planSection, bundlesSection, slots,
                   running, sink, emitted, calls, net, blurs, exp, expSink>>]_vars

C4_Witness ==
  /\ last = "submit"
  /\ state = "submitting"
  /\ \E a \in SlotIds : slots[a].pc = "awaitBundles" /\ InFlight(a)

(***************************************************************************)
(* C5: once wirePlannerEvents has wrapped onEvent, the original sink is    *)
(* still called with exactly the (stage, detail) pairs the controller      *)
(* emits, in the same order, each once.                                    *)
(***************************************************************************)
C5_WrappingPreservesOriginalSink ==
  wired =>
    sink = [i \in 1..Len(emitted) |->
              [stage |-> emitted[i].stage, detail |-> emitted[i].detail]]

C5_Witness ==
  /\ wired
  /\ \E i \in 1..Len(sink) : sink[i].stage = "success"
  /\ \E i \in 1..Len(sink) : sink[i].stage = "plan_success"

(***************************************************************************)
(* C6 as stated: at the end of every submission attempt the state is       *)
(* 'idle'.                                                                 *)
(***************************************************************************)
C6_Original ==
  \A a \in SlotIds : Finished(a) => state = "idle"

(***************************************************************************)
(* C6 amended: at the end of an attempt the state is the one the outcome   *)
(* set ('error' after a validation, primary or secondary failure,          *)
(* 'success' after both calls succeeded); the cleanup does not reset it to *)
(* 'idle'.                                                                 *)
(***************************************************************************)
C6_EndStateIsOutcome ==
  \A a \in SlotIds :
    Finished(a) =>
      state = (IF ~FormIsValid(slots[a].formAt) THEN "error"
               ELSE IF PrimarySucceeded(a) /\ SecondarySucceeded(a) THEN "success"
               ELSE "error")

C6_Witness ==
  \E a \in SlotIds :
    /\ Finished(a)
    /\ state = "success"
    /\ ~ui.disabled
    /\ last = "step"

(***************************************************************************)
(* C7 as stated: in every state, 'submitting' implies that a primary or a  *)
(* secondary call is in flight.                                            *)
(***************************************************************************)
C7_Original ==
  state = "submitting" => \E a \in SlotIds : InFlight(a)

(***************************************************************************)
(* C7 amended: whenever no handler is executing, 'submitting' implies that *)
(* a primary or a secondary call is in flight.                             *)
(***************************************************************************)
C7_SubmittingWhileSuspendedHasCall ==
  (running = 0 /\ state = "submitting") =>
    \E a \in SlotIds : Awaiting(a) /\ InFlight(a)

C7_Witness ==
  /\ running = 0
  /\ state = "submitting"
  /\ \E a \in SlotIds : slots[a].pc = "awaitPlan" /\ slots[a].req.call = "plan"

(***************************************************************************)
(* C8: the state is 'success' only if the most recent attempt's primary    *)
(* call and secondary call both returned; an attempt whose secondary call  *)
(* failed ends in 'error'.                                                 *)
(***************************************************************************)
C8_SuccessNeedsBothCalls ==
  /\ state = "success" =>
       \E a \in SlotIds :
         /\ slots[a].pc \in {"finally", "done"}
         /\ PrimarySucceeded(a)
         /\ SecondarySucceeded(a)
         /\ slots[a].err = Undefined
  /\ \A a \in SlotIds : (Finished(a) /\ PartialFailure(a)) => state = "error"

C8_Witness ==
  /\ state = "success"
  /\ \E a \in SlotIds : Finished(a) /\ slots[a].planData = Null
                        /\ slots[a].bundlesData = Null

(***************************************************************************)
(* C9: an attempt with valid input whose two calls succeed emits           *)
(* state_change(validating), submit, state_change(submitting),             *)
(* plan_success, bundles_success, success, state_change(success), each     *)
(* once and in this order; success carries the plan of plan_success and    *)
(* the bundles of bundles_success; the final state is 'success'.           *)
(***************************************************************************)
C9_SuccessEventOrder ==
  \A a \in SlotIds :
    (Finished(a) /\ PrimarySucceeded(a) /\ SecondarySucceeded(a)) =>
      LET ev == EventsBy(a)
      IN  /\ StagesBy(a) = <<"submit", "plan_success", "bundles_success", "success">>
          /\ Labels(ev) = <<"state_change:validating", "submit",
                            "state_change:submitting", "plan_success",
                            "bundles_success", "success", "state_change:success">>
          /\ ev[6].detail.plan = ev[4].detail.plan
          /\ ev[6].detail.bundles = ev[5].detail.bundles
          /\ state = "success"

C9_Witness ==
  \E a \in SlotIds :
    /\ Finished(a)
    /\ slots[a].formAt = FormWithEmail
    /\ StagesBy(a) = <<"submit", "plan_success", "bundles_success", "success">>
    /\ slots[a].bundlesData.t = "arr"

(***************************************************************************)
(* C10: an attempt with valid input whose primary call succeeds and whose  *)
(* secondary call fails emits, state_change aside, exactly submit,         *)
(* plan_success, bundles_error in this order; the final state is 'error'   *)
(* and the plan stays rendered.                                            *)
(***************************************************************************)
C10_PartialFailureEventOrder ==
  \A a \in SlotIds :
    (Finished(a) /\ PartialFailure(a)) =>
      /\ StagesBy(a) = <<"submit", "plan_success", "bundles_error">>
      /\ state = "error"
      /\ planSection = renderPlan(slots[a].planData)

C10_Witness ==
  \E a \in SlotIds :
    /\ Finished(a)
    /\ PartialFailure(a)
    /\ slots[a].err.message = "HTTP 500"
    /\ StagesBy(a) = <<"submit", "plan_success", "bundles_error">>

(***************************************************************************)
(* Vocabulary of the failure paths                                         *)
(***************************************************************************)
FailureStages == {"validation_failed", "error", "bundles_error"}

\* the failure events invocation a emitted, in order
FailureEventsBy(a) ==
  SelectSeq(emitted, LAMBDA e : e.by = a /\ e.stage \in FailureStages)

ErrorEventsBy(a) == SelectSeq(emitted, LAMBDA e : e.by = a /\ e.stage = "error")

ErrorKinds == {"VALIDATION", "NETWORK", "TIMEOUT", "SERVER", "UNKNOWN"}

\* a ResolvedError {kind, message, raw?}, as opposed to an error object
IsResolvedError(d) ==
  /\ {"kind", "message"} \subseteq DOMAIN d
  /\ DOMAIN d \subseteq {"kind", "message", "raw"}
  /\ d.kind \in ErrorKinds

\* the attempt took a failure path and is over
FailedAttempt(a) ==
  Finished(a) /\ (~FormIsValid(slots[a].formAt) \/ slots[a].err /= Undefined)

\* the primary call threw and the catch block has emitted its event
PrimaryFailed(a) ==
  /\ slots[a].pc \in {"errorEmitted", "finally", "done"}
  /\ FormIsValid(slots[a].formAt)
  /\ ~PrimarySucceeded(a)
  /\ slots[a].err /= Undefined

(***************************************************************************)
(* C11 as stated: every failure path of an attempt (validation, primary    *)
(* call, secondary call) emits exactly one failure event, whose detail is  *)
(* the field-errors mapping for a validation failure and a ResolvedError   *)
(* {kind, message} otherwise, never a raw error object.                    *)
(***************************************************************************)
C11_Original ==
  \A a \in SlotIds :
    FailedAttempt(a) =>
      LET ev == FailureEventsBy(a)
      IN  /\ Len(ev) = 1
          /\ IF ev[1].stage = "validation_failed"
             THEN DOMAIN ev[1].detail = {"fieldErrors"}
             ELSE IsResolvedError(ev[1].detail)

(***************************************************************************)
(* C12 as stated: a primary-call failure resolves to exactly one kind:     *)
(* aborted by the timer -> TIMEOUT, else rejected with a TypeError ->      *)
(* NETWORK, else non-success status -> SERVER, else UNKNOWN.               *)
(***************************************************************************)
ClaimedKind(c) ==
  IF c.abort /= "none" THEN "TIMEOUT"
  ELSE IF c.settled.type = "reject"
  THEN IF c.settled.err.cls = "TypeError" THEN "NETWORK" ELSE "UNKNOWN"
  ELSE IF ~ResOk(c.settled.status) THEN "SERVER"
  ELSE "UNKNOWN"

C12_Original ==
  \A a \in SlotIds :
    PrimaryFailed(a) =>
      /\ Len(ErrorEventsBy(a)) = 1
      /\ ErrorEventsBy(a)[1].detail.kind = ClaimedKind(slots[a].cause)

(***************************************************************************)
(* C12 amended: a primary-call failure resolves to exactly one kind.  A    *)
(* response with a non-success status is SERVER, also when the timer       *)
(* fires while its body is read; otherwise a call aborted by the timer is  *)
(* TIMEOUT, a TypeError rejection NETWORK, and a malformed non-empty body  *)
(* or any other error UNKNOWN; an absent error value resolves to UNKNOWN.  *)
(***************************************************************************)
KindInCode(c) ==
  IF c.settled /= Undefined /\ c.settled.type = "response" /\ ~ResOk(c.settled.status)
  THEN "SERVER"
  ELSE IF c.abort /= "none" THEN "TIMEOUT"
  ELSE IF c.settled.type = "reject"
  THEN IF c.settled.err.cls = "TypeError" THEN "NETWORK" ELSE "UNKNOWN"
  ELSE "UNKNOWN"

C12_FailureKindByCause ==
  /\ \A a \in SlotIds :
       PrimaryFailed(a) =>
         /\ Len(ErrorEventsBy(a)) = 1
         /\ IsResolvedError(ErrorEventsBy(a)[1].detail)
         /\ ErrorEventsBy(a)[1].detail.kind = KindInCode(slots[a].cause)
  /\ resolveError(Null).kind = "UNKNOWN"
  /\ resolveError(Undefined).kind = "UNKNOWN"

C12_Witness ==
  \E a \in SlotIds :
    /\ PrimaryFailed(a)
    /\ slots[a].cause.abort = "body"
    /\ ErrorEventsBy(a)[1].detail.kind = "TIMEOUT"

(***************************************************************************)
(* C13: when the timer of the primary call fires before fetch() has a      *)
(* response, the request is aborted, the attempt emits exactly one error   *)
(* event, of kind TIMEOUT, ends in state 'error', and issues no secondary  *)
(* request.                                                                *)
(***************************************************************************)
PrimaryTimedOut(a) ==
  /\ Finished(a)
  /\ FormIsValid(slots[a].formAt)
  /\ ~PrimarySucceeded(a)
  /\ slots[a].cause = Cause("fetch", Undefined)

C13_PrimaryTimeout ==
  \A a \in SlotIds :
    PrimaryTimedOut(a) =>
      /\ \A i \in RequestsBy(a, "plan") : net[i].aborted
      /\ Len(ErrorEventsBy(a)) = 1
      /\ ErrorEventsBy(a)[1].detail.kind = "TIMEOUT"
      /\ state = "error"
      /\ RequestsBy(a, "bundles") = {}

C13_Witness ==
  \E a \in SlotIds :
    /\ PrimaryTimedOut(a)
    /\ slots[a].formAt = FormValid
    /\ ui.statusMsg = STATUS_TIMEOUT_ERROR
    /\ Cardinality(RequestsBy(a, "plan")) = 1

(***************************************************************************)
(* C14: whenever a submit can be invoked and the state is not              *)
(* 'submitting', the state is idle, success or error and the invocation    *)
(* is accepted: it starts a new attempt, whose first event is              *)
(* state_change(validating).                                               *)
(***************************************************************************)
C14_SubmitAcceptedOutsideSubmitting ==
  /\ [](Quiescent /\ state /= "submitting" =>
         state \in {"idle", "success", "error"} /\ ReusableSlots /= {})
  /\ [][(running = 0 /\ state /= "submitting" /\ last' = "submit") =>
          /\ state' = "validating"
          /\ running' \in SlotIds
          /\ slots'[running'].pc = "validate"
          /\ slots'[running'].formAt = form
          /\ emitted' = <<[stage |-> "state_change", detail |-> [state |-> "validating"],
                           by |-> running']>>]_vars

C14_Witness ==
  /\ last = "submit"
  /\ state = "validating"
  /\ ui.statusMsg = STATUS_PARTIAL_BUNDLES_ERROR
  /\ planSection /= Blank

(***************************************************************************)
(* C15: every step that changes the controller's state emits, in the same  *)
(* step, exactly one event, a state_change carrying the new state; and     *)
(* once init has run, the most recent state_change event carries the       *)
(* current state.                                                          *)
(***************************************************************************)
StateChanges == {i \in 1..Len(emitted) : emitted[i].stage = "state_change"}

LastStateChange ==
  emitted[CHOOSE i \in StateChanges : \A j \in StateChanges : j <= i]

C15_StateChangesAreAnnounced ==
  /\ [][state' /= state =>
          /\ emitted' # <<>>
          /\ emitted'[Len(emitted')].stage = "state_change"
          /\ emitted'[Len(emitted')].detail = [state |-> state']
          /\ \/ emitted' = Append(emitted, emitted'[Len(emitted')])
             \/ Len(emitted') = 1]_vars
  /\ [](boot /= "constructed" =>
         StateChanges /= {} /\ LastStateChange.detail.state = state)

C15_Witness ==
  /\ state = "error"
  /\ Len(emitted) >= 3
  /\ emitted[Len(emitted) - 1].stage = "bundles_error"
  /\ LastStateChange.detail.state = "error"

(***************************************************************************)
(* Vocabulary of the wiring                                                *)
(***************************************************************************)
\* the position of the wiring among the calls, 0 if it lies before them
WiringAt ==
  IF \E i \in 1..Len(calls) : calls[i] = WiringCall
  THEN CHOOSE i \in 1..Len(calls) : calls[i] = WiringCall
  ELSE 0

\* the events emitted before the wiring: each made one call, of the original sink
EmittedBeforeWiring == IF WiringAt = 0 THEN 0 ELSE WiringAt - 1

EmittedSinceWiring == SubSeq(emitted, EmittedBeforeWiring + 1, Len(emitted))

CallsSinceWiring == SubSeq(calls, WiringAt + 1, Len(calls))

\* the planner_event events the experience layer forwarded to its own sink
PlannerEvents == SelectSeq(expSink, LAMBDA e : e.stage = "planner_event")

HandlerCalls == {i \in 1..Len(calls) : calls[i].callee = "handlePlannerEvent"}

(***************************************************************************)
(* C16: after the wiring, every event the controller emits makes two       *)
(* calls, the original sink first and handlePlannerEvent second, once      *)
(* each and in emission order, and handlePlannerEvent forwards one         *)
(* planner_event with that stage and detail.                               *)
(***************************************************************************)
C16_FanOutAfterOriginal ==
  wired =>
    LET since == EmittedSinceWiring
        after == CallsSinceWiring
    IN  /\ Len(after) = 2 * Len(since)
        /\ \A k \in 1..Len(since) :
             /\ after[2 * k - 1] = Call("original", since[k].stage, since[k].detail)
             /\ after[2 * k] = Call("handlePlannerEvent", since[k].stage, since[k].detail)
        /\ PlannerEvents =
             [k \in 1..Len(since) |->
                [stage |-> "planner_event",
                 detail |-> [stage |-> since[k].stage, detail |-> since[k].detail]]]

C16_Witness ==
  /\ wired
  /\ Len(PlannerEvents) >= 6
  /\ \E k \in 1..Len(PlannerEvents) : PlannerEvents[k].detail.stage = "bundles_success"
  /\ calls[Len(calls)].callee = "handlePlannerEvent"

(***************************************************************************)
(* C17: attaching the experience layer delivers nothing to it; the events  *)
(* emitted before (init's state_change(idle)) never reach it, it receives  *)
(* exactly the events emitted after it was attached.                       *)
(***************************************************************************)
C17_NoReplayOnAttach ==
  /\ [][(~wired /\ wired') =>
          /\ calls' = Append(calls, WiringCall)
          /\ emitted' = emitted
          /\ PlannerEvents' = <<>>
          /\ exp' = ExperienceNew]_vars
  /\ [](wired =>
         /\ \A i \in HandlerCalls : i > WiringAt
         /\ Cardinality(HandlerCalls) = Len(emitted) - EmittedBeforeWiring
         /\ Len(PlannerEvents) = Len(emitted) - EmittedBeforeWiring)

C17_Witness ==
  /\ wired
  /\ EmittedBeforeWiring = 1
  /\ emitted[1].stage = "state_change"
  /\ Len(emitted) = 2
  /\ Len(PlannerEvents) = 1
  /\ PlannerEvents[1].detail.stage = "validation_failed"

(***************************************************************************)
(* C18 as stated: in an attempt whose validation fails the controller      *)
(* transitions to 'error' before validation_failed is emitted, and         *)
(* validation_failed is the attempt's last event.                          *)
(***************************************************************************)
C18_Original ==
  \A a \in SlotIds :
    (Finished(a) /\ ~FormIsValid(slots[a].formAt)) =>
      Labels(EventsBy(a)) =
        <<"state_change:validating", "state_change:error", "validation_failed">>

(***************************************************************************)
(* C18 amended: in an attempt whose validation fails, validation_failed    *)
(* with the field errors is emitted in state 'validating', the transition  *)
(* to 'error' follows and state_change(error) is the attempt's last event; *)
(* no submit, plan_success, bundles_*, success or error event is emitted.  *)
(***************************************************************************)
C18_ValidationFailedThenError ==
  \A a \in SlotIds :
    (Finished(a) /\ ~FormIsValid(slots[a].formAt)) =>
      /\ Labels(EventsBy(a)) =
           <<"state_change:validating", "validation_failed", "state_change:error">>
      /\ DOMAIN EventsBy(a)[2].detail.fieldErrors /= {}
      /\ \A i \in 1..Len(emitted) :
           emitted[i].stage \in {"state_change", "validation_failed"}

C18_Witness ==
  \E a \in SlotIds :
    /\ Finished(a)
    /\ slots[a].formAt = FormBadEmail
    /\ Len(EventsBy(a)) = 3
    /\ Len(emitted) = 4
    /\ emitted[4].stage = "state_change"

(***************************************************************************)
(* C19 as stated: in an attempt whose primary call fails,                  *)
(* state_change(error) precedes the single error event.                    *)
(***************************************************************************)
C19_Original ==
  \A a \in SlotIds :
    (Finished(a) /\ PrimaryFailed(a)) =>
      Labels(EventsBy(a)) =
        <<"state_change:validating", "submit", "state_change:submitting",
          "state_change:error", "error">>

(***************************************************************************)
(* C19 amended: in an attempt whose primary call fails, the single error   *)
(* event carrying the ResolvedError is emitted in state 'submitting' and   *)
(* state_change(error) follows it; no plan_success, bundles_success,       *)
(* bundles_error or success event is emitted.                              *)
(***************************************************************************)
C19_ErrorThenStateChange ==
  \A a \in SlotIds :
    (Finished(a) /\ PrimaryFailed(a)) =>
      /\ Labels(EventsBy(a)) =
           <<"state_change:validating", "submit", "state_change:submitting",
             "error", "state_change:error">>
      /\ IsResolvedError(EventsBy(a)[4].detail)
      /\ \A i \in 1..Len(emitted) :
           emitted[i].stage \notin {"plan_success", "bundles_success",
                                    "bundles_error", "success"}

C19_Witness ==
  \E a \in SlotIds :
    /\ Finished(a)
    /\ PrimaryFailed(a)
    /\ slots[a].err.message = "Invalid JSON response"
    /\ EventsBy(a)[4].detail.kind = "UNKNOWN"
    /\ state = "error"

(***************************************************************************)
(* C20: if every awaited call ends (response, failure or abort by its      *)
(* timer), an attempt that reached its primary call eventually is over     *)
(* with the cleanup done: the state is no longer 'submitting', the spinner *)
(* is hidden and the submit button is enabled, whichever branch it took.   *)
(***************************************************************************)
C20_AttemptReachesCleanup ==
  \A a \in SlotIds :
    (slots[a].pc = "callPlan" /\ state = "submitting") ~>
      (Finished(a) /\ running = 0 /\ state \in {"success", "error"}
         /\ ui.spinnerHidden /\ ~ui.disabled)

C20_Witness ==
  \E a \in SlotIds :
    /\ Finished(a)
    /\ PartialFailure(a)
    /\ slots[a].cause.abort = "body"
    /\ state = "error"
    /\ ui.spinnerHidden
    /\ ~ui.disabled

(***************************************************************************)
(* C21: an empty body of a successful response is a success.  jsonFetch    *)
(* returns null; after the primary call the attempt emits plan_success     *)
(* with a null plan and issues the secondary call; after the secondary     *)
(* call it emits bundles_success with null bundles and ends in 'success'.  *)
(***************************************************************************)
EmptyOk == Cause("none", Response(200, BODY_EMPTY))

EventsOf(a, stage) == SelectSeq(emitted, LAMBDA e : e.by = a /\ e.stage = stage)

C21_EmptyBodyIsSuccess ==
  /\ jsonFetch(Response(200, BODY_EMPTY)) = Returned(Null)
  /\ \A a \in SlotIds :
       /\ (slots[a].pc \in {"renderPlan", "planRendered", "callBundles"}
             /\ slots[a].cause = EmptyOk) =>
            slots[a].planData = Null
       /\ (slots[a].planData = Null /\ Finished(a)) =>
            /\ Len(EventsOf(a, "plan_success")) = 1
            /\ EventsOf(a, "plan_success")[1].detail.plan = Null
            /\ Cardinality(RequestsBy(a, "bundles")) = 1
       /\ (PrimarySucceeded(a) /\ Finished(a) /\ slots[a].cause = EmptyOk) =>
            /\ slots[a].bundlesData = Null
            /\ Len(EventsOf(a, "bundles_success")) = 1
            /\ EventsOf(a, "bundles_success")[1].detail.bundles = Null
            /\ bundlesSection = renderBundles(Null)
            /\ state = "success"

C21_Witness ==
  \E a \in SlotIds :
    /\ Finished(a)
    /\ slots[a].planData = Null
    /\ slots[a].bundlesData = Null
    /\ slots[a].cause = EmptyOk
    /\ Len(EventsOf(a, "success")) = 1
    /\ planSection = renderPlan(Null)

(***************************************************************************)
(* C22: the timeout bound applies to each call on its own.  A pending      *)
(* jsonFetch call has exactly its own timeout, due a full timeoutMs after  *)
(* the call began whatever time the earlier call took; a call that ended   *)
(* has no timeout left to fire, so no later call is aborted by it; a call  *)
(* that timed out had its full timeoutMs.                                  *)
(***************************************************************************)
C22_TimeoutPerCall ==
  /\ \A i \in DOMAIN fetches :
       /\ fetches[i].status = "pending" =>
            {t \in timers : t.id = i} = {[id |-> i, due |-> fetches[i].started + TimeoutTicks]}
       /\ fetches[i].status /= "pending" => {t \in timers : t.id = i} = {}
       /\ fetches[i].status = "timeout" =>
            fetches[i].ended - fetches[i].started >= TimeoutTicks
  /\ \A t \in timers : t.id \in DOMAIN fetches

C22_Witness ==
  /\ Len(fetches) = 2
  /\ fetches[1].status = "returned"
  /\ fetches[1].ended > fetches[1].started
  /\ fetches[2].call = "bundles"
  /\ fetches[2].status = "timeout"
  /\ fetches[2].ended - fetches[2].started = TimeoutTicks
  /\ fetches[2].ended - fetches[1].started > TimeoutTicks

(***************************************************************************)
(* C23: one payload per attempt.  The payload of the submit event, the     *)
(* body of the plan request and the concern in the bundles URL are the     *)
(* value getPayload built from the trimmed fields of the form that passed  *)
(* validation; editing the form while a call is awaited changes none of    *)
(* them.                                                                   *)
(***************************************************************************)
C23_OnePayloadPerAttempt ==
  \A a \in SlotIds :
    slots[a].payload /= Undefined =>
      /\ FormIsValid(slots[a].formAt)
      /\ slots[a].payload = PayloadOf[slots[a].formAt]
      /\ slots[a].payload.concern = Trim(slots[a].formAt.concern)
      /\ \A i \in 1..Len(emitted) :
           (emitted[i].by = a /\ emitted[i].stage = "submit") =>
             emitted[i].detail.payload = slots[a].payload
      /\ \A i \in RequestsBy(a, "plan") : net[i].body = slots[a].payload
      /\ \A i \in RequestsBy(a, "bundles") :
           net[i].url = bundlesEndpoint(Trim(slots[a].formAt.concern))

C23_Witness ==
  \E a \in SlotIds :
    /\ RequestsBy(a, "bundles") /= {}
    /\ Trim(form.concern) /= Trim(slots[a].formAt.concern)
    /\ slots[a].formAt.age /= Trim(slots[a].formAt.age)

(***************************************************************************)
(* C24: validateFields answers ok exactly when the trimmed age is          *)
(* non-empty, finite and within 1..600, the trimmed concern has 3 to 500   *)
(* characters, and the trimmed email is empty or shaped local@domain.tld.  *)
(* The bounds 1, 600, 3 and 500 are accepted; 0, 601 and the lengths 2 and *)
(* 501 are rejected; an empty age or concern gets the 'required' message.  *)
(***************************************************************************)
AgeAccepted(raw) ==
  /\ Trim(raw) /= <<>>
  /\ IsFinite(NumberOf(Trim(raw)))
  /\ ~NumLt(NumberOf(Trim(raw)), 1)
  /\ ~NumGt(NumberOf(Trim(raw)), 600)

ConcernAccepted(raw) == Len(Trim(raw)) \in 3..500

\* local@domain.tld: one "@", no space, a "." after the "@" with text on
\* both sides of it, text before the "@"
EmailShaped(s) ==
  /\ Cardinality({i \in 1..Len(s) : s[i] = "@"}) = 1
  /\ \A i \in 1..Len(s) : s[i] /= " "
  /\ s[1] /= "@"
  /\ \E j \in 1..Len(s) :
       /\ s[j] = "."
       /\ j < Len(s)
       /\ \E i \in 1..(j - 2) : s[i] = "@"

EmailAccepted(raw) == Trim(raw) = <<>> \/ EmailShaped(Trim(raw))

C24_OkExactlyWhenFieldsValid ==
  validated /= Undefined =>
    /\ validated.ok <=> (/\ AgeAccepted(fields.age)
                         /\ ConcernAccepted(fields.concern)
                         /\ EmailAccepted(fields.email))
    /\ Trim(fields.age) \in {<<"1">>, <<"6", "0", "0">>} =>
         "age" \notin DOMAIN validated.fieldErrors
    /\ Trim(fields.age) \in {<<"0">>, <<"6", "0", "1">>} =>
         "age" \in DOMAIN validated.fieldErrors
    /\ Len(Trim(fields.concern)) \in {3, 500} =>
         "concern" \notin DOMAIN validated.fieldErrors
    /\ Len(Trim(fields.concern)) \in {2, 501} =>
         "concern" \in DOMAIN validated.fieldErrors
    /\ Trim(fields.age) = <<>> =>
         /\ "age" \in DOMAIN validated.fieldErrors
         /\ validated.fieldErrors["age"] = "Age is required."
    /\ Trim(fields.concern) = <<>> =>
         /\ "concern" \in DOMAIN validated.fieldErrors
         /\ validated.fieldErrors["concern"] = "Please describe your main concern."

C24_Witness ==
  /\ validated /= Undefined
  /\ validated.ok
  /\ fields.age = <<"6", "0", "0">>
  /\ Len(fields.concern) = 502
  /\ Len(Trim(fields.concern)) = 500
  /\ Len(fields.email) = 7

(***************************************************************************)
(* C25: fieldErrors has a key for a field exactly when that field's own    *)
(* value is invalid, whatever the other fields hold, with one message of   *)
(* that field; ok holds exactly when fieldErrors is empty and exactly when *)
(* formError is null.                                                      *)
(***************************************************************************)
FieldAccepted(f, raw) ==
  CASE f = "age" -> AgeAccepted(raw)
    [] f = "concern" -> ConcernAccepted(raw)
    [] f = "email" -> EmailAccepted(raw)

MessagesOf(f) ==
  CASE f = "age" -> {"Age is required.", "Age must be a positive number.",
                     "Age must be between 1 and 600 months."}
    [] f = "concern" -> {"Please describe your main concern.",
                         "Concern must be at least 3 characters.",
                         "Concern must be at most 500 characters."}
    [] f = "email" -> {"Please enter a valid email address."}

C25_FieldErrorsPerField ==
  validated /= Undefined =>
    /\ DOMAIN validated.fieldErrors \subseteq {"age", "concern", "email"}
    /\ \A f \in {"age", "concern", "email"} :
         /\ f \in DOMAIN validated.fieldErrors <=> ~FieldAccepted(f, fields[f])
         /\ f \in DOMAIN validated.fieldErrors =>
              validated.fieldErrors[f] \in MessagesOf(f)
    /\ validated.ok <=> DOMAIN validated.fieldErrors = {}
    /\ validated.ok <=> validated.formError = "null"
    /\ ~validated.ok <=> validated.formError = STATUS_VALIDATION_ERROR

C25_Witness ==
  /\ validated /= Undefined
  /\ DOMAIN validated.fieldErrors = {"age", "concern", "email"}
  /\ validated.formError = STATUS_VALIDATION_ERROR
  /\ Len(fields.concern) = 501

(***************************************************************************)
(* C26: the cached snapshots follow the events.  Once a plan_success was   *)
(* handled, ExperienceApp, GrokQuiz and ChatWidget hold the plan of the    *)
(* most recent one; once a bundles_success was handled, ExperienceApp,     *)
(* GrokQuiz, ChatWidget, PriceAlerts and ReviewForm hold the bundles of    *)
(* the most recent one.                                                    *)
(***************************************************************************)
Handled(stage) == SelectSeq(sink, LAMBDA e : e.stage = stage)

MostRecent(stage, f) ==
  DetailField(Handled(stage)[Len(Handled(stage))].detail, f)

C26_Original ==
  /\ Handled("plan_success") /= <<>> =>
       \A c \in {exp.latestPlan, exp.quizPlan, exp.chatPlan} :
         c = MostRecent("plan_success", "plan")
  /\ Handled("bundles_success") /= <<>> =>
       \A c \in {exp.latestBundles, exp.quizBundles, exp.chatBundles,
                  exp.alertBundles, exp.reviewBundles} :
         c = MostRecent("bundles_success", "bundles")

(***************************************************************************)
(* C27: the seed policy of the two lists.  handlePlannerEvent changes the  *)
(* milestones only when the list is empty and the plan has steps, and the  *)
(* registry only when the list is empty and there are bundles; the list    *)
(* and its stored copy are then the seeded entries.  A list that has       *)
(* entries, added by the user or seeded before, is left as it is.          *)
(***************************************************************************)
Arrived == sink'[Len(sink')]

HasSteps(detail) ==
  /\ DetailField(detail, "plan").t = "obj"
  /\ "steps" \in DOMAIN DetailField(detail, "plan")
  /\ Len(DetailField(detail, "plan").steps) > 0

HasBundles(detail) ==
  /\ DetailField(detail, "bundles").t = "arr"
  /\ Len(DetailField(detail, "bundles").items) > 0

C27_SeedOnlyWhenEmpty ==
  [][last' = "event" =>
       /\ exp'.milestones /= exp.milestones =>
            /\ Arrived.stage = "plan_success"
            /\ HasSteps(Arrived.detail)
            /\ exp.milestones.milestones = <<>>
            /\ Len(exp'.milestones.milestones) = Len(DetailField(Arrived.detail, "plan").steps)
            /\ exp'.milestones.stored = exp'.milestones.milestones
       /\ exp.milestones.milestones /= <<>> => exp'.milestones = exp.milestones
       /\ exp'.registry /= exp.registry =>
            /\ Arrived.stage = "bundles_success"
            /\ HasBundles(Arrived.detail)
            /\ exp.registry.items = <<>>
            /\ Len(exp'.registry.items) = Len(DetailField(Arrived.detail, "bundles").items)
            /\ exp'.registry.stored = exp'.registry.items
       /\ exp.registry.items /= <<>> => exp'.registry = exp.registry]_vars

C27_Witness ==
  /\ last = "event"
  /\ sink[Len(sink)].stage = "plan_success"
  /\ HasSteps(sink[Len(sink)].detail)
  /\ Len(exp.milestones.milestones) = 1
  /\ exp.milestones.milestones[1].id = "custom-1"
  /\ exp.milestones.stored = exp.milestones.milestones
  /\ Len(Handled("bundles_success")) = 2
  /\ exp.registry.items /= <<>>

(***************************************************************************)
(* C28: the handler answers 200 or 404 only when both environment values   *)
(* are set and the user name and the password decoded from the             *)
(* Authorization header (the text before the first ":" and the text after  *)
(* it) equal them; in every other case it answers 401 and reads no file.   *)
(***************************************************************************)
Credentials ==
  IF request.authorization /= Undefined
     /\ Len(request.authorization.tokens) >= 2
     /\ request.authorization.tokens[2].t = "b64"
  THEN request.authorization.tokens[2].of
  ELSE <<>>

Authorised ==
  /\ env.USER /= Undefined
  /\ env.PASS /= Undefined
  /\ Credentials = env.USER.s \o <<":">> \o env.PASS.s

C28_Original ==
  response /= Undefined =>
    /\ response.status \in {200, 404} => Authorised
    /\ ~Authorised => response.status = 401 /\ response.read = <<>>

(***************************************************************************)
(* C29: whatever the URL of an authenticated request, ".." segments        *)
(* included, the file the handler serves lies in frontend/public.          *)
(***************************************************************************)
C29_Original ==
  (response /= Undefined /\ response.status = 200) =>
    /\ Len(response.read) > Len(PublicDir)
    /\ SubSeq(response.read, 1, Len(PublicDir)) = PublicDir

(***************************************************************************)
(* C30: error is emitted only when the plan call failed and bundles_error  *)
(* only when the bundles call failed, also when the sink or a subscriber   *)
(* throws while it handles plan_success, bundles_success or success: an    *)
(* attempt never has error after plan_success, nor both bundles_success    *)
(* and bundles_error.                                                      *)
(***************************************************************************)
C30_Original ==
  \A a \in SlotIds :
    /\ EventsOf(a, "error") /= <<>> => EventsOf(a, "plan_success") = <<>>
    /\ EventsOf(a, "bundles_error") /= <<>> => EventsOf(a, "bundles_success") = <<>>
    /\ EventsOf(a, "error") /= <<>> =>
         slots[a].planData = Undefined /\ RequestsBy(a, "bundles") = {}
    /\ EventsOf(a, "bundles_error") /= <<>> => slots[a].bundlesData = Undefined

(***************************************************************************)
(* C31 as stated: at every quiescent point, when ExperienceApp.latestPlan  *)
(* and ExperienceApp.latestBundles are both non-null they come from the    *)
(* same submission attempt: the attempt that emitted the most recent       *)
(* plan_success also emitted a bundles_success after it.  Only the points  *)
(* where no attempt is suspended at an await are considered.                *)
(***************************************************************************)
C31_Original ==
  (/\ Quiescent /\ wired
   /\ \A a \in SlotIds : slots[a].pc \in {"free", "done"}
   /\ exp.latestPlan /= Null /\ exp.latestBundles /= Null)
  => \A i \in 1..Len(emitted) :
       emitted[i].stage = "plan_success"
       => \E j \in (i + 1)..Len(emitted) :
            /\ emitted[j].stage = "bundles_success"
            /\ emitted[j].by = emitted[i].by

(***************************************************************************)
(* Vocabulary of the controller state along the history                    *)
(***************************************************************************)
\* the positions before i at which a state was announced
AnnouncedUpTo(i) == {j \in 1..(i - 1) : emitted[j].stage = "state_change"}

\* the controller state when the i-th event was emitted: the state of the
\* last setState before it
StateWhenEmitted(i) ==
  LET k == CHOOSE j \in AnnouncedUpTo(i) : \A m \in AnnouncedUpTo(i) : m <= j
  IN  emitted[k].detail.state

\* no invocation of handleSubmit is executing or suspended
NoAttemptOpen == running = 0 /\ \A a \in SlotIds : slots[a].pc \in {"free", "done"}

(***************************************************************************)
(* C32 as stated: every validation_failed event, those of the blur handler *)
(* included, is emitted while the controller state is 'validating', and    *)
(* once no handler is open a state_change(error) has followed it.          *)
(***************************************************************************)
C32_Original ==
  \A i \in 1..Len(emitted) :
    emitted[i].stage = "validation_failed"
    => /\ AnnouncedUpTo(i) /= {}
       /\ StateWhenEmitted(i) = "validating"
       /\ NoAttemptOpen
          => \E j \in (i + 1)..Len(emitted) :
               /\ emitted[j].stage = "state_change"
               /\ emitted[j].detail.state = "error"

(***************************************************************************)
(* C33: whenever the controller state is 'submitting' the submit button is *)
(* disabled and the spinner is shown, and whenever no handler is running   *)
(* the button is disabled if and only if the state is 'submitting'.        *)
(***************************************************************************)
C33_ButtonDisabledWhileSubmitting ==
  /\ state = "submitting" => (ui.disabled /\ ~ui.spinnerHidden)
  /\ running = 0 => (ui.disabled <=> state = "submitting")

C33_Witness ==
  /\ Quiescent
  /\ state = "submitting"
  /\ ui.disabled
  /\ ~ui.spinnerHidden
  /\ \E a \in SlotIds : slots[a].pc = "awaitBundles" /\ InFlight(a)

C35_Original ==
  /\ running = 0 => state \in {"idle", "submitting", "success", "error"}
  /\ \A i \in 1..Len(emitted) :
       (emitted[i].by = 0 /\ emitted[i].stage = "validation_failed")
       => StateWhenEmitted(i) /= "validating"

(***************************************************************************)
(* C36: GrokQuiz has at most one quiz request in flight; loading is true   *)
(* exactly while a request is in flight (it is false again once the        *)
(* request has settled, with data or with an error); a submit while        *)
(* loading is true changes nothing of the quiz; and a submit when no       *)
(* request is in flight sends one.                                         *)
(***************************************************************************)
C36_OneQuizRequestAtATime ==
  [][/\ Len(quiz'.flight) <= 1
     /\ quiz'.loading <=> (quiz'.flight /= <<>>)
     /\ (quiz'.submits /= quiz.submits /\ quiz.loading)
        => quiz' = [quiz EXCEPT !.submits = quiz'.submits, !.step = quiz'.step]
     /\ (quiz'.submits /= quiz.submits /\ quiz.flight = <<>>)
        => Len(quiz'.flight) = 1]_vars

C36_Witness ==
  /\ quiz.step = "ignored"
  /\ quiz.loading
  /\ Len(quiz.flight) = 1
  /\ quiz.events /= <<>>

(***************************************************************************)
(* C37 as stated: once every webhook request has settled, the checkbox     *)
(* shows the enabled value of the last request the webhook accepted, or    *)
(* its initial value if the webhook accepted none.                         *)
(***************************************************************************)
C37_Original ==
  toggle.flight = <<>>
  => toggle.checked = (IF toggle.accepted = <<>> THEN toggle.initial
                       ELSE toggle.accepted[Len(toggle.accepted)])

====
